---- MODULE Spec2Model ----
(***************************************************************************)
(* A model of the Dexios core: the 416-byte V5 header codec                *)
(* (dexios-core/src/header.rs), master-key unlocking                       *)
(* (dexios-core/src/key.rs), and the keyslot manager and top-level         *)
(* encrypt/decrypt that sit on top of them.                                *)
(*                                                                         *)
(* Bytes are integers 0..255 and buffers are sequences of bytes, at their  *)
(* real lengths (a header is 416 bytes, a slot region 96).  The header     *)
(* codec and decrypt_master_key are translated from the source.  The       *)
(* cipher, stream, primitives and dexios-domain key/encrypt/decrypt        *)
(* modules are not part of the available source; they are modelled from    *)
(* the written specification and marked so in MODEL_MAP.json.              *)
(***************************************************************************)
EXTENDS Integers, Sequences, FiniteSets, TLC

VARIABLES
    pc,     \* position of the scenario being run
    hdr,    \* the in-memory Header value an operation works on
    file,   \* the bytes on disk: a header, or a header followed by ciphertext
    res,    \* the result of the last operation
    ghost   \* what the scenario knows about its inputs (never read by the code)

vars == <<pc, hdr, file, res, ghost>>

(***************************************************************************)
(* Bytes                                                                   *)
(***************************************************************************)
Fill(n, b) == [i \in 1..n |-> b]

Zeros(n) == Fill(n, 0)

\* The slice buf[from .. from+n) of a 0-based buffer.
Slice(buf, from, n) == SubSeq(buf, from + 1, from + n)

\* buf with the bytes from offset off (0-based) on overwritten by patch.
Patch(buf, off, patch) ==
    SubSeq(buf, 1, off) \o patch \o SubSeq(buf, off + Len(patch) + 1, Len(buf))

\* b with bit k (0..7) flipped.
FlipBitOf(b, k) ==
    LET w == 2 ^ k
    IN  IF (b \div w) % 2 = 1 THEN b - w ELSE b + w

(***************************************************************************)
(* primitives: lengths and the nonce length of an (algorithm, mode) pair   *)
(***************************************************************************)
SALT_LEN == 16

MASTER_KEY_LEN == 32

ENCRYPTED_MASTER_KEY_LEN == 48

TAG_LEN == 16

HEADER_LEN == 416

AAD_LEN == 32

SLOT_LEN == 96

NUM_SLOTS == 4

BLAKE3BALLOON_LATEST == 5

Algorithms == {"XChaCha20Poly1305", "Aes256GcmSiv"}

Modes == {"StreamMode", "MemoryMode"}

get_nonce_len(algorithm, mode) ==
    IF algorithm = "XChaCha20Poly1305"
    THEN (IF mode = "MemoryMode" THEN 24 ELSE 20)
    ELSE (IF mode = "MemoryMode" THEN 12 ELSE 8)

(***************************************************************************)
(* Header (header.rs).  A Header is a record                               *)
(*   [header_type : [version, algorithm, mode], nonce, keyslots]           *)
(* and a Keyslot a record [hash_algorithm, encrypted_key, nonce, salt],    *)
(* hash_algorithm being the u8 carried by HashingAlgorithm::Blake3Balloon. *)
(***************************************************************************)
NoHeader == [header_type |-> [version |-> "none", algorithm |-> "none", mode |-> "none"],
             nonce |-> <<>>, keyslots |-> <<>>]

Keyslot_serialize(keyslot) ==
    IF keyslot.hash_algorithm = 5 THEN <<223, 181>> ELSE <<0, 0>>

serialize_version(h) == <<222, 5>>

serialize_algorithm(h) ==
    IF h.header_type.algorithm = "XChaCha20Poly1305" THEN <<14, 1>> ELSE <<14, 2>>

serialize_mode(h) ==
    IF h.header_type.mode = "StreamMode" THEN <<12, 1>> ELSE <<12, 2>>

get_tag(h) ==
    [version |-> serialize_version(h),
     algorithm |-> serialize_algorithm(h),
     mode |-> serialize_mode(h)]

\* serialize_keyslot padding the slot nonce by the header's own mode instead of
\* the memory mode every slot is wrapped in.
serialize_keyslot_by_mode(h, keyslot) ==
    LET keyslot_nonce_len == get_nonce_len(h.header_type.algorithm, h.header_type.mode)
    IN  Keyslot_serialize(keyslot) \o keyslot.encrypted_key \o keyslot.nonce
          \o Zeros(24 - keyslot_nonce_len) \o keyslot.salt \o Zeros(6)

\* The body of the keyslot loop of serialize_v5: one keyslot's bytes.
serialize_keyslot(h, keyslot) ==
    LET keyslot_nonce_len == get_nonce_len(h.header_type.algorithm, "MemoryMode")
    IN  Keyslot_serialize(keyslot) \o keyslot.encrypted_key \o keyslot.nonce
          \o Zeros(24 - keyslot_nonce_len) \o keyslot.salt \o Zeros(6)

RECURSIVE serialize_keyslots(_, _, _)
serialize_keyslots(h, keyslots, i) ==
    IF i > Len(keyslots) THEN <<>>
    ELSE serialize_keyslot(h, keyslots[i]) \o serialize_keyslots(h, keyslots, i + 1)

\* 4 - keyslots.len() is a usize subtraction: with more than four keyslots it
\* overflows (a panic in a debug build, a wrapped count in a release build).
SerializeOverflows(h) == Len(h.keyslots) > NUM_SLOTS

serialize_v5(h, tag) ==
    LET padding == Zeros(26 - get_nonce_len(h.header_type.algorithm, h.header_type.mode))
        static == tag.version \o tag.algorithm \o tag.mode \o h.nonce \o padding
        slots == serialize_keyslots(h, h.keyslots, 1)
    IN  IF SerializeOverflows(h) THEN static \o slots
        ELSE static \o slots \o Zeros(SLOT_LEN * (NUM_SLOTS - Len(h.keyslots)))

serialize(h) == serialize_v5(h, get_tag(h))

get_size(h) == 416

\* create_aad that also covers the first keyslot region.
create_aad_with_slot(h) ==
    LET tag == get_tag(h)
    IN  tag.version \o tag.algorithm \o tag.mode \o h.nonce
          \o Zeros(26 - get_nonce_len(h.header_type.algorithm, h.header_type.mode))
          \o (IF Len(h.keyslots) > 0 THEN serialize_keyslot(h, h.keyslots[1]) ELSE <<>>)

create_aad(h) ==
    LET tag == get_tag(h)
    IN  tag.version \o tag.algorithm \o tag.mode \o h.nonce
          \o Zeros(26 - get_nonce_len(h.header_type.algorithm, h.header_type.mode))

\* A failed deserialize that reports every failure as the same error.
DeserializeErr_one_kind(kind, at) ==
    [ok |-> FALSE, err |-> "Error", header |-> NoHeader, aad |-> <<>>, pos |-> at]

\* The result of a failed deserialize: the error kind and where the reader is left.
DeserializeErr(kind, at) ==
    [ok |-> FALSE, err |-> kind, header |-> NoHeader, aad |-> <<>>, pos |-> at]

\* The four iterations of the keyslot loop of deserialize, the cursor at cur
\* (0-based) with n iterations left and the keyslots read so far in acc.
RECURSIVE deserialize_keyslots(_, _, _, _, _)
deserialize_keyslots(full, cur, n, acc, keyslot_nonce_len) ==
    IF n = 0 THEN [ok |-> TRUE, err |-> "none", keyslots |-> acc]
    ELSE IF cur + 2 > Len(full) THEN [ok |-> FALSE, err |-> "Io", keyslots |-> <<>>]
    ELSE
      LET identifier == Slice(full, cur, 2)
      IN  IF identifier[1] # 223
          THEN deserialize_keyslots(full, cur + 2, n - 1, acc, keyslot_nonce_len)
          ELSE IF cur + SLOT_LEN > Len(full)
          THEN [ok |-> FALSE, err |-> "Io", keyslots |-> <<>>]
          ELSE IF identifier # <<223, 181>>
          THEN [ok |-> FALSE, err |-> "BadSlotTag", keyslots |-> <<>>]
          ELSE
            LET keyslot ==
                  [hash_algorithm |-> 5,
                   encrypted_key |-> Slice(full, cur + 2, 48),
                   nonce |-> Slice(full, cur + 50, keyslot_nonce_len),
                   salt |-> Slice(full, cur + 74, SALT_LEN)]
            IN  deserialize_keyslots(full, cur + SLOT_LEN, n - 1,
                                     Append(acc, keyslot), keyslot_nonce_len)

\* The AAD with the two last padding bytes written as zero instead of copied.
deserialize_aad_zero_tail(full) == Slice(full, 0, 30) \o Zeros(2)

\* The AAD deserialize returns: the first 32 bytes as they were read.
deserialize_aad(full) == Slice(full, 0, 32)

\* A seek that leaves the reader where it is.
seek_current_ignored(pos, offset) == pos

\* reader.seek(SeekFrom::Current(offset)): the position afterwards.
seek_current(pos, offset) == pos + offset

\* Header::deserialize on a reader holding `bytes`, positioned at `start`.
deserialize(bytes, start) ==
    IF start + 2 > Len(bytes) THEN DeserializeErr("Io", Len(bytes))
    ELSE
      LET version_bytes == Slice(bytes, start, 2)
      IN  IF version_bytes # <<222, 5>>
            THEN DeserializeErr("BadVersion", seek_current(start + 2, -2))
          ELSE IF start + 416 > Len(bytes) THEN DeserializeErr("Io", Len(bytes))
          ELSE
            LET full == Slice(bytes, start, 416)
                algorithm_bytes == Slice(full, 2, 2)
                mode_bytes == Slice(full, 4, 2)
            IN  IF algorithm_bytes \notin {<<14, 1>>, <<14, 2>>}
                THEN DeserializeErr("BadAlgorithm", start + 416)
                ELSE IF mode_bytes \notin {<<12, 1>>, <<12, 2>>}
                THEN DeserializeErr("BadMode", start + 416)
                ELSE
                  LET algorithm == IF algorithm_bytes = <<14, 1>>
                                   THEN "XChaCha20Poly1305" ELSE "Aes256GcmSiv"
                      mode == IF mode_bytes = <<12, 1>> THEN "StreamMode" ELSE "MemoryMode"
                      nonce_len == get_nonce_len(algorithm, mode)
                      ks == deserialize_keyslots(full, 32, 4, <<>>,
                                                 get_nonce_len(algorithm, "MemoryMode"))
                  IN  IF ~ks.ok THEN DeserializeErr(ks.err, start + 416)
                      ELSE [ok |-> TRUE, err |-> "none",
                            header |-> [header_type |-> [version |-> "V5",
                                                         algorithm |-> algorithm,
                                                         mode |-> mode],
                                        nonce |-> Slice(full, 6, nonce_len),
                                        keyslots |-> ks.keyslots],
                            aad |-> deserialize_aad(full),
                            pos |-> start + 416]

(***************************************************************************)
(* The cryptographic primitives.  BLAKE3-Balloon and the two AEADs come    *)
(* from external crates; they are modelled as ideal: a keyed checksum     *)
(* stands for the hash and for the authentication tag, so that equal       *)
(* inputs give equal outputs and (on the inputs the model draws) different *)
(* inputs give different outputs.                                          *)
(***************************************************************************)
DigestModulus == 32749

\* The polynomial checksum of s[lo..hi] in `base`, with base^(hi-lo+1), both
\* modulo DigestModulus; computed by halves.
RECURSIVE Poly(_, _, _, _)
Poly(s, lo, hi, base) ==
    IF lo > hi THEN [h |-> 0, p |-> 1]
    ELSE IF lo = hi THEN [h |-> (s[lo] + 1) % DigestModulus, p |-> base]
    ELSE LET mid == (lo + hi) \div 2
             l == Poly(s, lo, mid, base)
             r == Poly(s, mid + 1, hi, base)
         IN  [h |-> (l.h * r.p + r.h) % DigestModulus, p |-> (l.p * r.p) % DigestModulus]

\* n bytes determined by the byte string s.
Digest(s, n) ==
    LET h1 == Poly(s, 1, Len(s), 257).h
        h2 == Poly(s, 1, Len(s), 263).h
        word == <<h1 % 256, h1 \div 256, h2 % 256, h2 \div 256>>
    IN  [j \in 1..n |-> (word[((j - 1) % 4) + 1] + 7 * ((j - 1) \div 4)) % 256]

\* balloon_hash::Params::new: every cost must be non-zero.
BalloonParamsNew(s_cost, t_cost, p_cost) ==
    [ok |-> s_cost > 0 /\ t_cost > 0 /\ p_cost > 0,
     s_cost |-> s_cost, t_cost |-> t_cost, p_cost |-> p_cost]

\* The integer n as four little-endian bytes.
LE32(n) == <<n % 256, (n \div 256) % 256, (n \div 65536) % 256, (n \div 16777216) % 256>>

\* Balloon::<blake3::Hasher>::hash_into(pwd, salt, out): 32 bytes determined by
\* the parameters, the password and the salt.
BalloonHashInto(params, pwd, salt) ==
    Digest(LE32(params.s_cost) \o LE32(params.t_cost) \o LE32(params.p_cost)
             \o <<Len(pwd)>> \o pwd \o salt, 32)

\* The AEAD of `algorithm` keyed with `key`: aead.encrypt(nonce, Payload {msg, aad}).
AlgorithmByte(algorithm) == IF algorithm = "XChaCha20Poly1305" THEN 1 ELSE 2

Keystream(key, nonce, i) ==
    key[((i - 1) % Len(key)) + 1] + nonce[((i - 1) % Len(nonce)) + 1] + i

AeadTag(algorithm, key, nonce, aad, body) ==
    Digest(<<AlgorithmByte(algorithm)>> \o key \o nonce \o <<Len(aad)>> \o aad \o body,
           TAG_LEN)

AeadEncrypt(algorithm, key, nonce, msg, aad) ==
    LET body == [i \in 1..Len(msg) |-> (msg[i] + Keystream(key, nonce, i)) % 256]
    IN  body \o AeadTag(algorithm, key, nonce, aad, body)

\* aead.decrypt(nonce, Payload {msg, aad}): the plaintext, or an error when the
\* message is shorter than a tag or the tag does not verify.
AeadDecrypt(algorithm, key, nonce, msg, aad) ==
    IF Len(msg) < TAG_LEN THEN [ok |-> FALSE, data |-> <<>>]
    ELSE
      LET body == SubSeq(msg, 1, Len(msg) - TAG_LEN)
          tag == SubSeq(msg, Len(msg) - TAG_LEN + 1, Len(msg))
      IN  IF tag # AeadTag(algorithm, key, nonce, aad, body)
          THEN [ok |-> FALSE, data |-> <<>>]
          ELSE [ok |-> TRUE,
                data |-> [i \in 1..Len(body) |->
                            (body[i] + 768 - Keystream(key, nonce, i)) % 256]]

\* Ciphers::initialize(key, algorithm) followed by encrypt / decrypt with no AAD
\* (cipher.rs): the nonce must have the memory-mode length of the algorithm.
Ciphers_encrypt(algorithm, key, nonce, msg) ==
    IF Len(nonce) # get_nonce_len(algorithm, "MemoryMode") THEN [ok |-> FALSE, data |-> <<>>]
    ELSE [ok |-> TRUE, data |-> AeadEncrypt(algorithm, key, nonce, msg, <<>>)]

Ciphers_decrypt(algorithm, key, nonce, msg) ==
    IF Len(nonce) # get_nonce_len(algorithm, "MemoryMode") THEN [ok |-> FALSE, data |-> <<>>]
    ELSE AeadDecrypt(algorithm, key, nonce, msg, <<>>)

(***************************************************************************)
(* key.rs                                                                  *)
(***************************************************************************)
KeyErr(kind) == [ok |-> FALSE, err |-> kind, key |-> <<>>]

\* balloon_hash stirring the state of the random number generator into the salt.
balloon_hash_with_entropy(raw_key, salt, version) ==
    [ok |-> TRUE, err |-> "none",
     key |-> BalloonHashInto(BalloonParamsNew(278528, 1, 1), raw_key,
                             [i \in 1..Len(salt) |-> (salt[i] + ghost.rng) % 256])]

balloon_hash(raw_key, salt, version) ==
    LET params == BalloonParamsNew(278528, 1, 1)
    IN  IF ~params.ok THEN KeyErr("KdfInit")
        ELSE [ok |-> TRUE, err |-> "none", key |-> BalloonHashInto(params, raw_key, salt)]

\* HashingAlgorithm::hash (header.rs)
HashingAlgorithm_hash(i, raw_key, salt) ==
    IF i = 5 THEN balloon_hash(raw_key, salt, "V5") ELSE KeyErr("KdfUnsupportedVersion")

\* vec_to_arr copying one byte too few.
vec_to_arr_short(v, n) == [i \in 1..n |-> IF i < Len(v) THEN v[i] ELSE 0]

vec_to_arr(v, n) == [i \in 1..n |-> IF i <= Len(v) THEN v[i] ELSE 0]

\* try_keyslot taking whatever the cipher left in its buffer, tag verified or not.
try_keyslot_unverified(raw_key, header, keyslot) ==
    LET key == HashingAlgorithm_hash(keyslot.hash_algorithm, raw_key, keyslot.salt)
    IN  IF ~key.ok THEN KeyErr("none")
        ELSE
          LET pt == Ciphers_decrypt(header.header_type.algorithm, key.key,
                                    keyslot.nonce, keyslot.encrypted_key)
          IN  [ok |-> TRUE, err |-> "none", key |-> vec_to_arr(pt.data, MASTER_KEY_LEN)]

\* The closure given to find_map in decrypt_master_key: Some(master key) or None.
try_keyslot(raw_key, header, keyslot) ==
    LET key == HashingAlgorithm_hash(keyslot.hash_algorithm, raw_key, keyslot.salt)
    IN  IF ~key.ok THEN KeyErr("none")
        ELSE
          LET pt == Ciphers_decrypt(header.header_type.algorithm, key.key,
                                    keyslot.nonce, keyslot.encrypted_key)
          IN  IF ~pt.ok THEN KeyErr("none")
              ELSE [ok |-> TRUE, err |-> "none", key |-> vec_to_arr(pt.data, MASTER_KEY_LEN)]

\* A scan that gives up at the first keyslot that does not unwrap.
find_map_first_only(raw_key, header, i) ==
    IF i > Len(header.keyslots) THEN KeyErr("NoMatchingKey")
    ELSE
      LET r == try_keyslot(raw_key, header, header.keyslots[i])
      IN  IF r.ok THEN r ELSE KeyErr("NoMatchingKey")

\* find_map: the result of the first keyslot, from index i on, that unwraps.
RECURSIVE find_map_keyslots(_, _, _)
find_map_keyslots(raw_key, header, i) ==
    IF i > Len(header.keyslots) THEN KeyErr("NoMatchingKey")
    ELSE
      LET r == try_keyslot(raw_key, header, header.keyslots[i])
      IN  IF r.ok THEN r ELSE find_map_keyslots(raw_key, header, i + 1)

\* decrypt_master_key looking at the first keyslot only (keyslots.iter().take(1)).
decrypt_master_key_take_one(raw_key, header) ==
    find_map_keyslots(raw_key, [header EXCEPT !.keyslots = SubSeq(@, 1, 1)], 1)

decrypt_master_key(raw_key, header) == find_map_keyslots(raw_key, header, 1)

(***************************************************************************)
(* The header codec on its own: a Header value is serialized and parsed    *)
(* back, and a raw 416-byte header is parsed and serialized again.         *)
(***************************************************************************)
NoRes == [ok |-> FALSE, err |-> "none"]

NoGhost == [kind |-> "none"]

HeaderTypes ==
    {[version |-> "V5", algorithm |-> a, mode |-> m] : a \in Algorithms, m \in Modes}

\* Keyslots as encrypt and add_key leave them: 48 key bytes, a memory-mode
\* nonce, 16 salt bytes, Blake3Balloon(5).  The second sample's key bytes begin
\* with 0xDF 0xB5, as ciphertext may.
SampleKeyslots(algorithm) ==
    LET n == get_nonce_len(algorithm, "MemoryMode")
    IN  {[hash_algorithm |-> BLAKE3BALLOON_LATEST, encrypted_key |-> Fill(48, 161),
          nonce |-> Fill(n, 51), salt |-> Fill(SALT_LEN, 68)],
         [hash_algorithm |-> BLAKE3BALLOON_LATEST,
          encrypted_key |-> <<223, 181>> \o Fill(46, 92),
          nonce |-> Fill(n, 52), salt |-> Fill(SALT_LEN, 69)]}

SeqsUpTo(S, n) == UNION {[1..k -> S] : k \in 0..n}

SampleHeaders ==
    UNION {{[header_type |-> t,
             nonce |-> Fill(get_nonce_len(t.algorithm, t.mode), 173),
             keyslots |-> ks] : ks \in SeqsUpTo(SampleKeyslots(t.algorithm), NUM_SLOTS)}
           : t \in HeaderTypes}

\* Slot regions a reader may meet: all zero, populated, and empty with other
\* bytes after a first byte that is not 0xDF.
EmptyRegion == Zeros(SLOT_LEN)

JunkRegion == <<7, 7, 223, 181>> \o Fill(SLOT_LEN - 4, 119)

SampleRegions(t) ==
    {EmptyRegion, JunkRegion}
      \cup {serialize_keyslot([header_type |-> t], k) : k \in SampleKeyslots(t.algorithm)}

SampleRawHeaders ==
    UNION {{create_aad([header_type |-> t,
                        nonce |-> Fill(get_nonce_len(t.algorithm, t.mode), 173),
                        keyslots |-> <<>>])
              \o r[1] \o r[2] \o r[3] \o r[4] : r \in [1..NUM_SLOTS -> SampleRegions(t)]}
           : t \in HeaderTypes}

CodecInit ==
    /\ pc \in {"raw", "struct"}
    /\ IF pc = "raw"
       THEN hdr = NoHeader /\ file \in SampleRawHeaders
       ELSE hdr \in SampleHeaders /\ file = <<>>
    /\ res = NoRes
    /\ ghost = NoGhost

\* Header::deserialize on the raw bytes.
CodecDeserialize ==
    /\ pc = "raw"
    /\ res' = deserialize(file, 0)
    /\ pc' = "parsed"
    /\ UNCHANGED <<hdr, file, ghost>>

\* Header::serialize on the Header that deserialize returned.
CodecReserialize ==
    /\ pc = "parsed"
    /\ res.ok
    /\ hdr' = res.header
    /\ res' = [ok |-> TRUE, err |-> "none", bytes |-> serialize(res.header)]
    /\ pc' = "reserialized"
    /\ UNCHANGED <<file, ghost>>

\* Header::serialize, get_size and create_aad on a Header value.
CodecSerialize ==
    /\ pc = "struct"
    /\ file' = serialize(hdr)
    /\ res' = [ok |-> TRUE, err |-> "none", size |-> get_size(hdr), aad |-> create_aad(hdr)]
    /\ pc' = "serialized"
    /\ UNCHANGED <<hdr, ghost>>

\* Header::deserialize on what serialize wrote.
CodecReparse ==
    /\ pc = "serialized"
    /\ res' = deserialize(file, 0)
    /\ pc' = "reparsed"
    /\ UNCHANGED <<hdr, file, ghost>>

CodecNext == CodecDeserialize \/ CodecReserialize \/ CodecSerialize \/ CodecReparse

SpecCodec == CodecInit /\ [][CodecNext]_vars

(***************************************************************************)
(* The stream codec (section 4.4) and the top-level encrypt and decrypt    *)
(* (section 4.7).  BLOCK_SIZE is 1 MiB in the program; the model scales it *)
(* down so that plaintexts shorter than, equal to and longer than a block  *)
(* can be enumerated.                                                      *)
(***************************************************************************)
BLOCK_SIZE == 2

\* The nonce of block i: the header's stream nonce, the block counter, and the
\* marker of the terminal block.
StreamNonce(base, i, last) ==
    base \o <<i % 256, (i \div 256) % 256, (i \div 65536) % 256, IF last THEN 1 ELSE 0>>

\* An encrypt flow that seals a last full read as the final block and writes no
\* empty terminal block after it.
RECURSIVE StreamEncrypt_full_final(_, _, _, _, _, _)
StreamEncrypt_full_final(algorithm, key, base, data, aad, i) ==
    IF Len(data) > BLOCK_SIZE
    THEN AeadEncrypt(algorithm, key, StreamNonce(base, i, FALSE),
                     SubSeq(data, 1, BLOCK_SIZE), aad)
           \o StreamEncrypt_full_final(algorithm, key, base,
                                       SubSeq(data, BLOCK_SIZE + 1, Len(data)), aad, i + 1)
    ELSE AeadEncrypt(algorithm, key, StreamNonce(base, i, TRUE), data, aad)

\* The encrypt flow from block i on: a full read is sealed as a non-final block,
\* a short (or empty) read as the final one.
RECURSIVE StreamEncrypt(_, _, _, _, _, _)
StreamEncrypt(algorithm, key, base, data, aad, i) ==
    IF Len(data) >= BLOCK_SIZE
    THEN AeadEncrypt(algorithm, key, StreamNonce(base, i, FALSE),
                     SubSeq(data, 1, BLOCK_SIZE), aad)
           \o StreamEncrypt(algorithm, key, base,
                            SubSeq(data, BLOCK_SIZE + 1, Len(data)), aad, i + 1)
    ELSE AeadEncrypt(algorithm, key, StreamNonce(base, i, TRUE), data, aad)

\* A decrypt flow that takes the end of the input after a whole block for the
\* end of the stream.
RECURSIVE StreamDecrypt_eof_ok(_, _, _, _, _, _)
StreamDecrypt_eof_ok(algorithm, key, base, data, aad, i) ==
    IF Len(data) = 0 /\ i > 0 THEN [ok |-> TRUE, data |-> <<>>]
    ELSE IF Len(data) >= BLOCK_SIZE + TAG_LEN
    THEN LET block == AeadDecrypt(algorithm, key, StreamNonce(base, i, FALSE),
                                  SubSeq(data, 1, BLOCK_SIZE + TAG_LEN), aad)
         IN  IF ~block.ok THEN [ok |-> FALSE, data |-> <<>>]
             ELSE LET rest == StreamDecrypt_eof_ok(algorithm, key, base,
                                                   SubSeq(data, BLOCK_SIZE + TAG_LEN + 1,
                                                          Len(data)),
                                                   aad, i + 1)
                  IN  IF ~rest.ok THEN rest
                      ELSE [ok |-> TRUE, data |-> block.data \o rest.data]
    ELSE AeadDecrypt(algorithm, key, StreamNonce(base, i, TRUE), data, aad)

\* The decrypt flow from block i on: a read of a whole sealed block is opened as
\* non-final, a shorter read as the final block; any failure is fatal.
RECURSIVE StreamDecrypt(_, _, _, _, _, _)
StreamDecrypt(algorithm, key, base, data, aad, i) ==
    IF Len(data) >= BLOCK_SIZE + TAG_LEN
    THEN LET block == AeadDecrypt(algorithm, key, StreamNonce(base, i, FALSE),
                                  SubSeq(data, 1, BLOCK_SIZE + TAG_LEN), aad)
         IN  IF ~block.ok THEN [ok |-> FALSE, data |-> <<>>]
             ELSE LET rest == StreamDecrypt(algorithm, key, base,
                                            SubSeq(data, BLOCK_SIZE + TAG_LEN + 1, Len(data)),
                                            aad, i + 1)
                  IN  IF ~rest.ok THEN rest
                      ELSE [ok |-> TRUE, data |-> block.data \o rest.data]
    ELSE AeadDecrypt(algorithm, key, StreamNonce(base, i, TRUE), data, aad)

\* Step 5 of encrypt and its inverse, by the header's mode.
PayloadEncrypt(header_type, key, nonce, data, aad) ==
    IF header_type.mode = "MemoryMode"
    THEN AeadEncrypt(header_type.algorithm, key, nonce, data, aad)
    ELSE StreamEncrypt(header_type.algorithm, key, nonce, data, aad, 0)

PayloadDecrypt(header_type, key, nonce, data, aad) ==
    IF header_type.mode = "MemoryMode"
    THEN AeadDecrypt(header_type.algorithm, key, nonce, data, aad)
    ELSE StreamDecrypt(header_type.algorithm, key, nonce, data, aad, 0)

\* What one call draws from the entropy source, by seed: a master key, a salt,
\* a payload nonce and a slot nonce.
gen_master_key(seed) == Fill(MASTER_KEY_LEN, 192 + seed)

gen_salt(seed) == Fill(SALT_LEN, 16 * seed + 2)

gen_nonce(algorithm, mode, seed) ==
    Fill(get_nonce_len(algorithm, mode), 16 * seed + (IF mode = "MemoryMode" THEN 3 ELSE 1))

OpErr(kind) == [ok |-> FALSE, err |-> kind, data |-> <<>>]

\* A keyslot wrapping master_key under raw_key with a fresh salt and nonce.
wrap_keyslot(raw_key, master_key, algorithm, hash_algorithm, seed) ==
    LET salt == gen_salt(seed)
        nonce == gen_nonce(algorithm, "MemoryMode", seed + 1)
        key == HashingAlgorithm_hash(hash_algorithm, raw_key, salt)
    IN  IF ~key.ok THEN [ok |-> FALSE, err |-> key.err]
        ELSE LET sealed == Ciphers_encrypt(algorithm, key.key, nonce, master_key)
             IN  IF ~sealed.ok THEN [ok |-> FALSE, err |-> "CipherInit"]
                 ELSE [ok |-> TRUE, err |-> "none",
                       keyslot |-> [hash_algorithm |-> hash_algorithm,
                                    encrypted_key |-> sealed.data,
                                    nonce |-> nonce,
                                    salt |-> salt]]

\* encrypt: the envelope (header followed by ciphertext) for a plaintext.
encrypt(plaintext, raw_key, header_type, hash_algorithm, seed) ==
    LET master_key == gen_master_key(seed)
        slot == wrap_keyslot(raw_key, master_key, header_type.algorithm, hash_algorithm, seed)
    IN  IF ~slot.ok THEN OpErr(slot.err)
        ELSE
          LET header == [header_type |-> header_type,
                         nonce |-> gen_nonce(header_type.algorithm, header_type.mode, seed),
                         keyslots |-> <<slot.keyslot>>]
              aad == create_aad(header)
          IN  [ok |-> TRUE, err |-> "none",
               data |-> serialize(header)
                          \o PayloadEncrypt(header_type, master_key, header.nonce, plaintext, aad)]

\* decrypt: the plaintext of an envelope, or the error that ended the attempt.
decrypt(envelope, raw_key) ==
    LET d == deserialize(envelope, 0)
    IN  IF ~d.ok THEN OpErr(d.err)
        ELSE
          LET master == decrypt_master_key(raw_key, d.header)
          IN  IF ~master.ok THEN OpErr(master.err)
              ELSE
                LET out == PayloadDecrypt(d.header.header_type, master.key, d.header.nonce,
                                          SubSeq(envelope, d.pos + 1, Len(envelope)), d.aad)
                IN  IF ~out.ok THEN OpErr("CipherAuth")
                    ELSE [ok |-> TRUE, err |-> "none", data |-> out.data]

(***************************************************************************)
(* Envelopes: a plaintext is encrypted, the envelope may be damaged in its *)
(* first 32 bytes, and it is decrypted.                                    *)
(***************************************************************************)
MaxPlainLen == 4

Plaintexts == {[i \in 1..n |-> 64 + i] : n \in 0..MaxPlainLen}

Secrets == {<<112>>, <<113>>, <<112, 113>>}

Seeds == {1, 2}

EnvelopeInit ==
    /\ pc = "start"
    /\ hdr = NoHeader
    /\ file = <<>>
    /\ res = NoRes
    /\ ghost = NoGhost

EnvelopeEncrypt ==
    /\ pc = "start"
    /\ \E plaintext \in Plaintexts, raw_key \in Secrets, t \in HeaderTypes, seed \in Seeds :
         LET e == encrypt(plaintext, raw_key, t, BLAKE3BALLOON_LATEST, seed)
         IN  /\ e.ok
             /\ file' = e.data
             /\ ghost' = [kind |-> "envelope", plaintext |-> plaintext, raw_key |-> raw_key,
                          header_type |-> t, flipped |-> FALSE]
    /\ res' = [ok |-> TRUE, err |-> "none", data |-> <<>>]
    /\ pc' = "encrypted"
    /\ UNCHANGED hdr

\* One bit of the first 32 bytes is flipped.
EnvelopeFlipBit ==
    /\ pc = "encrypted"
    /\ ~ghost.flipped
    /\ \E i \in 1..AAD_LEN, k \in 0..7 :
         file' = [file EXCEPT ![i] = FlipBitOf(file[i], k)]
    /\ ghost' = [ghost EXCEPT !.flipped = TRUE]
    /\ UNCHANGED <<pc, hdr, res>>

\* decrypt with any secret on an intact envelope, with the right one on a
\* damaged envelope.
EnvelopeDecrypt ==
    /\ pc = "encrypted"
    /\ \E raw_key \in Secrets :
         /\ ghost.flipped => raw_key = ghost.raw_key
         /\ res' = decrypt(file, raw_key) @@ [raw_key |-> raw_key]
    /\ pc' = "decrypted"
    /\ UNCHANGED <<hdr, file, ghost>>

EnvelopeNext == EnvelopeEncrypt \/ EnvelopeFlipBit \/ EnvelopeDecrypt

SpecEnvelope == EnvelopeInit /\ [][EnvelopeNext]_vars

(***************************************************************************)
(* decrypt_master_key on its own: a Header whose keyslots wrap known       *)
(* master keys under known secrets is probed with a secret.                *)
(***************************************************************************)
\* What a keyslot was made from: the secret, the master key it wraps, and the
\* parameter version its hash_algorithm names.
SlotKinds ==
    {[raw_key |-> <<112>>, master |-> 1, version |-> 5],
     [raw_key |-> <<113>>, master |-> 2, version |-> 5],
     [raw_key |-> <<112>>, master |-> 2, version |-> 5],
     [raw_key |-> <<112>>, master |-> 1, version |-> 4]}

KeyslotOfKind(kind, algorithm) ==
    [wrap_keyslot(kind.raw_key, gen_master_key(kind.master), algorithm,
                  BLAKE3BALLOON_LATEST, kind.master).keyslot
       EXCEPT !.hash_algorithm = kind.version]

UnlockInit ==
    /\ pc = "probe"
    /\ \E t \in HeaderTypes, kinds \in SeqsUpTo(SlotKinds, NUM_SLOTS), raw_key \in Secrets :
         /\ t.mode = "MemoryMode"
         /\ hdr = [header_type |-> t,
                   nonce |-> gen_nonce(t.algorithm, t.mode, 1),
                   keyslots |-> [i \in 1..Len(kinds) |-> KeyslotOfKind(kinds[i], t.algorithm)]]
         /\ ghost = [kind |-> "unlock", kinds |-> kinds, raw_key |-> raw_key]
    /\ file = <<>>
    /\ res = NoRes

UnlockDecryptMasterKey ==
    /\ pc = "probe"
    /\ res' = decrypt_master_key(ghost.raw_key, hdr)
    /\ pc' = "unlocked"
    /\ UNCHANGED <<hdr, file, ghost>>

UnlockNext == UnlockDecryptMasterKey

SpecUnlock == UnlockInit /\ [][UnlockNext]_vars

(***************************************************************************)
(* The keyslot manager (section 4.6): add, change, delete and verify on    *)
(* the 416 header bytes of an encrypted file.  A header is read with       *)
(* Header::deserialize and unlocked with decrypt_master_key; a slot is     *)
(* written in place, in the keyslot layout of serialize_v5.                *)
(***************************************************************************)
SlotOffset(k) == AAD_LEN + SLOT_LEN * k

SlotRegion(bytes, k) == Slice(bytes, SlotOffset(k), SLOT_LEN)

\* A slot is empty when its first byte is not 0xDF.
SlotPopulated(bytes, k) == SlotRegion(bytes, k)[1] = 223

PopulatedSlots(bytes) == {k \in 0..(NUM_SLOTS - 1) : SlotPopulated(bytes, k)}

EmptySlots(bytes) == (0..(NUM_SLOTS - 1)) \ PopulatedSlots(bytes)

MinOf(S) == CHOOSE k \in S : \A j \in S : k <= j

\* The keyslot held by populated slot k.
SlotKeyslot(bytes, k, algorithm) ==
    LET region == SlotRegion(bytes, k)
    IN  [hash_algorithm |-> IF Slice(region, 0, 2) = <<223, 181>> THEN 5 ELSE 0,
         encrypted_key |-> Slice(region, 2, 48),
         nonce |-> Slice(region, 50, get_nonce_len(algorithm, "MemoryMode")),
         salt |-> Slice(region, 74, SALT_LEN)]

\* The slots, in wire order, that the secret unwraps.
UnlockedSlots(bytes, raw_key, header) ==
    {k \in PopulatedSlots(bytes) :
       try_keyslot(raw_key, header, SlotKeyslot(bytes, k, header.header_type.algorithm)).ok}

\* Unlock, the header read: recover the master key with the secret.
unlock_header(d, raw_key) ==
    IF ~d.ok THEN [ok |-> FALSE, err |-> d.err, key |-> <<>>, header |-> NoHeader]
    ELSE decrypt_master_key(raw_key, d.header) @@ [header |-> d.header]

\* Unlock: read the header and recover the master key with the secret.
unlock(bytes, raw_key) == unlock_header(deserialize(bytes, 0), raw_key)

verify_key(bytes, raw_key) == unlock(bytes, raw_key).ok

ManagerErr(kind, bytes) == [ok |-> FALSE, err |-> kind, bytes |-> bytes]

\* A fresh keyslot wrapping the master key that u unlocked under raw_key_new.
new_slot(u, raw_key_new, seed) ==
    wrap_keyslot(raw_key_new, u.key, u.header.header_type.algorithm,
                 BLAKE3BALLOON_LATEST, seed)

\* Write the slot: the keyslot's 96 bytes at the offset of slot k.
write_slot(bytes, u, slot, k) ==
    IF ~slot.ok THEN ManagerErr(slot.err, bytes)
    ELSE [ok |-> TRUE, err |-> "none",
          bytes |-> Patch(bytes, SlotOffset(k), serialize_keyslot(u.header, slot.keyslot))]

\* Replace the slot: slot k is zeroed, then rewritten.
rewrite_slot(bytes, u, slot, k) ==
    IF ~slot.ok THEN ManagerErr(slot.err, bytes)
    ELSE [ok |-> TRUE, err |-> "none",
          bytes |-> Patch(Patch(bytes, SlotOffset(k), Zeros(SLOT_LEN)),
                          SlotOffset(k), serialize_keyslot(u.header, slot.keyslot))]

\* Add, the header unlocked as u.
add_key_unlocked(bytes, u, raw_key_new, seed) ==
    IF ~u.ok THEN ManagerErr(u.err, bytes)
    ELSE IF EmptySlots(bytes) = {} THEN ManagerErr("NoEmptySlot", bytes)
    ELSE write_slot(bytes, u, new_slot(u, raw_key_new, seed), MinOf(EmptySlots(bytes)))

\* An add that takes the slot after the populated ones without looking for a
\* free one.
add_key_unguarded(bytes, raw_key_old, raw_key_new, seed) ==
    LET u == unlock(bytes, raw_key_old)
    IN  IF ~u.ok THEN ManagerErr(u.err, bytes)
        ELSE write_slot(bytes, u, new_slot(u, raw_key_new, seed),
                        Cardinality(PopulatedSlots(bytes)))

add_key(bytes, raw_key_old, raw_key_new, seed) ==
    add_key_unlocked(bytes, unlock(bytes, raw_key_old), raw_key_new, seed)

\* Change, the header unlocked as u and `hits` the slots the old secret unwraps.
change_key_unlocked(bytes, u, hits, raw_key_new, seed) ==
    IF ~u.ok THEN ManagerErr(u.err, bytes)
    ELSE IF hits = {} THEN ManagerErr("NoMatchingKey", bytes)
    ELSE rewrite_slot(bytes, u, new_slot(u, raw_key_new, seed), MinOf(hits))

change_key_header(bytes, u, raw_key_old, raw_key_new, seed) ==
    change_key_unlocked(bytes, u, UnlockedSlots(bytes, raw_key_old, u.header),
                        raw_key_new, seed)

change_key(bytes, raw_key_old, raw_key_new, seed) ==
    change_key_header(bytes, unlock(bytes, raw_key_old), raw_key_old, raw_key_new, seed)

\* Delete, the header unlocked as u and `hits` the slots the secret unwraps.
del_key_unlocked(bytes, u, hits) ==
    IF ~u.ok THEN ManagerErr(u.err, bytes)
    ELSE IF hits = {} THEN ManagerErr("NoMatchingKey", bytes)
    ELSE IF Cardinality(PopulatedSlots(bytes)) <= 1 THEN ManagerErr("LastSlot", bytes)
    ELSE [ok |-> TRUE, err |-> "none",
          bytes |-> Patch(bytes, SlotOffset(MinOf(hits)), Zeros(SLOT_LEN))]

del_key_header(bytes, u, raw_key_old) ==
    del_key_unlocked(bytes, u, UnlockedSlots(bytes, raw_key_old, u.header))

del_key(bytes, raw_key_old) == del_key_header(bytes, unlock(bytes, raw_key_old), raw_key_old)

\* The entropy drawn when the file is encrypted and by each later add or change.
EncryptSeeds == {1}

KeySeeds == {3}

\* The secrets the key operations are tried with.
KeySecrets == {<<112>>, <<113>>}

KeysInit ==
    /\ pc = "start"
    /\ hdr = NoHeader
    /\ file = <<>>
    /\ res = NoRes
    /\ ghost = NoGhost

\* encrypt writes the header of a new file; the payload plays no part here.
KeysEncrypt ==
    /\ pc = "start"
    /\ \E raw_key \in KeySecrets, t \in HeaderTypes, seed \in EncryptSeeds :
         LET e == encrypt(<<>>, raw_key, t, BLAKE3BALLOON_LATEST, seed)
         IN  /\ t.mode = "StreamMode"
             /\ e.ok
             /\ file' = SubSeq(e.data, 1, HEADER_LEN)
             /\ ghost' = [kind |-> "keys", master_key |-> gen_master_key(seed)]
             /\ res' = [op |-> "encrypt", ok |-> TRUE, err |-> "none", old |-> raw_key,
                        new |-> raw_key, before |-> <<>>]
    /\ pc' = "done"
    /\ UNCHANGED hdr

\* The operation's outcome r is recorded and its bytes are what the file holds.
KeysApply(op, r, old, new) ==
    /\ file' = r.bytes
    /\ res' = [op |-> op, ok |-> r.ok, err |-> r.err, old |-> old, new |-> new,
               before |-> file]

KeysAdd ==
    /\ pc = "header"
    /\ \E old \in KeySecrets, new \in KeySecrets, seed \in KeySeeds :
         KeysApply("add_key", add_key(file, old, new, seed), old, new)
    /\ pc' = "done"
    /\ UNCHANGED <<hdr, ghost>>

KeysChange ==
    /\ pc = "header"
    /\ \E old \in KeySecrets, new \in KeySecrets, seed \in KeySeeds :
         KeysApply("change_key", change_key(file, old, new, seed), old, new)
    /\ pc' = "done"
    /\ UNCHANGED <<hdr, ghost>>

KeysDel ==
    /\ pc = "header"
    /\ \E old \in KeySecrets :
         KeysApply("del_key", del_key(file, old), old, old)
    /\ pc' = "done"
    /\ UNCHANGED <<hdr, ghost>>

KeysVerify ==
    /\ pc = "header"
    /\ \E raw_key \in KeySecrets :
         res' = [op |-> "verify_key", ok |-> verify_key(file, raw_key), err |-> "none",
                 old |-> raw_key, new |-> raw_key, before |-> file]
    /\ pc' = "done"
    /\ UNCHANGED <<hdr, file, ghost>>

\* The operation has returned; the file is left as it is for the next one.
KeysReturn ==
    /\ pc = "done"
    /\ pc' = "header"
    /\ res' = NoRes
    /\ UNCHANGED <<hdr, file, ghost>>

KeysNext == KeysEncrypt \/ KeysAdd \/ KeysChange \/ KeysDel \/ KeysVerify \/ KeysReturn

SpecKeys == KeysInit /\ [][KeysNext]_vars

(***************************************************************************)
(* Damaged envelopes: a plaintext is encrypted, the ciphertext is cut short *)
(* or the algorithm byte (byte 3 of the header) is overwritten, and the    *)
(* envelope is decrypted with the right secret.                            *)
(***************************************************************************)
TamperSecrets == {<<112>>}

\* The values byte 3 is overwritten with.
AlgorithmByteValues == {0, 1, 2, 3, 255}

TamperInit ==
    /\ pc = "start"
    /\ hdr = NoHeader
    /\ file = <<>>
    /\ res = NoRes
    /\ ghost = NoGhost

TamperEncrypt ==
    /\ pc = "start"
    /\ \E plaintext \in Plaintexts, raw_key \in TamperSecrets, t \in HeaderTypes,
          seed \in EncryptSeeds :
         /\ file' = encrypt(plaintext, raw_key, t, BLAKE3BALLOON_LATEST, seed).data
         /\ ghost' = [kind |-> "tamper", plaintext |-> plaintext, raw_key |-> raw_key,
                      header_type |-> t, master_key |-> gen_master_key(seed),
                      cut |-> 0, changed |-> FALSE]
    /\ res' = [ok |-> TRUE, err |-> "none", data |-> <<>>]
    /\ pc' = "encrypted"
    /\ UNCHANGED hdr

\* The last n >= 1 bytes of the ciphertext are removed.
TamperTruncate ==
    /\ pc = "encrypted"
    /\ ghost.cut = 0
    /\ ~ghost.changed
    /\ \E n \in 1..(Len(file) - HEADER_LEN) :
         /\ file' = SubSeq(file, 1, Len(file) - n)
         /\ ghost' = [ghost EXCEPT !.cut = n]
    /\ UNCHANGED <<pc, hdr, res>>

\* Byte 3 of the header is given another value.
TamperSetAlgorithmByte ==
    /\ pc = "encrypted"
    /\ ghost.cut = 0
    /\ ~ghost.changed
    /\ \E b \in AlgorithmByteValues \ {file[4]} :
         file' = [file EXCEPT ![4] = b]
    /\ ghost' = [ghost EXCEPT !.changed = TRUE]
    /\ UNCHANGED <<pc, hdr, res>>

TamperDecrypt ==
    /\ pc = "encrypted"
    /\ res' = decrypt(file, ghost.raw_key)
    /\ pc' = "decrypted"
    /\ UNCHANGED <<hdr, file, ghost>>

TamperNext == TamperEncrypt \/ TamperTruncate \/ TamperSetAlgorithmByte \/ TamperDecrypt

SpecTamper == TamperInit /\ [][TamperNext]_vars

(***************************************************************************)
(* The header codec on inputs outside the valid ones: raw headers with     *)
(* other tags, slot identifiers and lengths, and Header values whose       *)
(* keyslots name other hash_algorithm versions.                            *)
(***************************************************************************)
WireVersionTags == {<<222, 5>>, <<222, 4>>, <<0, 5>>}

WireAlgorithmTags == {<<14, 1>>, <<14, 2>>, <<14, 3>>, <<15, 1>>}

WireModeTags == {<<12, 1>>, <<12, 2>>, <<12, 0>>, <<13, 1>>}

PopulatedRegion == <<223, 181>> \o Fill(SLOT_LEN - 2, 161)

\* A region that begins with 0xDF and another second byte.
BadTagRegion == <<223, 180>> \o Fill(SLOT_LEN - 2, 119)

WireRegions == {EmptyRegion, PopulatedRegion, BadTagRegion}

WireStatics ==
    {v \o a \o m \o Fill(26, 173) :
       v \in WireVersionTags, a \in WireAlgorithmTags, m \in WireModeTags}

\* The lengths a reader may hold: nothing, less than the version, less than the
\* tags, one byte short of a header, and a header followed by more.
WireLengths == {0, 1, 5, 415, 420}

WireRawInputs ==
    {st \o r[1] \o r[2] \o r[3] \o r[4] : st \in WireStatics, r \in [1..NUM_SLOTS -> WireRegions]}
      \cup {SubSeq(st \o Fill(HEADER_LEN, 0), 1, n) : st \in WireStatics, n \in WireLengths}

\* Keyslot values naming Blake3Balloon(5), Blake3Balloon(4) and Blake3Balloon(0).
WireKeyslots(algorithm) ==
    {[hash_algorithm |-> v, encrypted_key |-> Fill(48, 161),
      nonce |-> Fill(get_nonce_len(algorithm, "MemoryMode"), 51),
      salt |-> Fill(SALT_LEN, 68)] : v \in {5, 4, 0}}

WireHeaders ==
    UNION {{[header_type |-> t,
             nonce |-> Fill(get_nonce_len(t.algorithm, t.mode), 173),
             keyslots |-> ks] : ks \in SeqsUpTo(WireKeyslots(t.algorithm), NUM_SLOTS)}
           : t \in HeaderTypes}

WireInit ==
    /\ pc \in {"raw", "struct"}
    /\ IF pc = "raw"
       THEN hdr = NoHeader /\ file \in WireRawInputs
       ELSE hdr \in WireHeaders /\ file = <<>>
    /\ res = NoRes
    /\ ghost = NoGhost

\* Header::deserialize on the raw bytes.
WireDeserialize ==
    /\ pc = "raw"
    /\ res' = deserialize(file, 0)
    /\ pc' = "parsed"
    /\ UNCHANGED <<hdr, file, ghost>>

\* Header::serialize on the Header value.
WireSerialize ==
    /\ pc = "struct"
    /\ file' = serialize(hdr)
    /\ pc' = "serialized"
    /\ UNCHANGED <<hdr, res, ghost>>

WireNext == WireDeserialize \/ WireSerialize

SpecWire == WireInit /\ [][WireNext]_vars

(***************************************************************************)
(* The blake3-balloon crate (params.rs, hasher.rs, lib.rs) and the key     *)
(* derivation entry points: each is called, any number of times, on one    *)
(* secret and salt, while salts are drawn from the random number generator *)
(* in between.                                                             *)
(***************************************************************************)
\* ParameterVersion::balloon_params with the V4 costs under V5.
ParameterVersion_balloon_params_legacy(version) ==
    BalloonParamsNew(262144, 1, 1)

\* ParameterVersion::balloon_params (params.rs)
ParameterVersion_balloon_params(version) ==
    IF version = "V4" THEN BalloonParamsNew(262144, 1, 1)
    ELSE BalloonParamsNew(278528, 1, 1)

\* Version::params (lib.rs): the parameters of V1; Custom has none.
Version_params(version) ==
    IF version = "V1" THEN BalloonParamsNew(278528, 1, 1)
    ELSE [ok |-> FALSE, s_cost |-> 0, t_cost |-> 0, p_cost |-> 0]

\* hash_password_raw (lib.rs)
hash_password_raw(password, salt, params) ==
    [ok |-> TRUE, err |-> "none", key |-> BalloonHashInto(params, password, salt)]

\* hash_password (lib.rs)
hash_password(password, salt, version) ==
    IF ~Version_params(version).ok THEN KeyErr("ParameterInit")
    ELSE hash_password_raw(password, salt, Version_params(version))

\* Blake3BalloonHasher::hash_password (hasher.rs), the hasher made for `version`.
Blake3BalloonHasher_hash_password(version, password, salt) ==
    IF Len(password) = 0 THEN KeyErr("EmptyPassword")
    ELSE IF ~ParameterVersion_balloon_params(version).ok THEN KeyErr("ParameterInit")
    ELSE [ok |-> TRUE, err |-> "none",
          key |-> BalloonHashInto(ParameterVersion_balloon_params(version), password, salt)]

KdfSecrets == {<<>>, <<112>>, <<112, 113>>}

KdfSalts == {Fill(SALT_LEN, 66), Zeros(SALT_LEN)}

ParameterVersions == {"V4", "V5"}

\* How often each scenario calls into the key derivation.
MaxCalls == 3

\* The states of the random number generator that salts are drawn from.
RngStates == 2

KdfInit ==
    /\ pc = "kdf"
    /\ hdr = NoHeader
    /\ file = <<>>
    /\ res = <<>>
    /\ \E secret \in KdfSecrets, salt \in KdfSalts, version \in ParameterVersions :
         ghost = [kind |-> "kdf", secret |-> secret, salt |-> salt, version |-> version,
                  rng |-> 0]

\* One call is logged: the entry point, what it returned, and the state of the
\* random number generator when it was made.
KdfLog(entry, out) ==
    /\ pc = "kdf"
    /\ Len(res) < MaxCalls
    /\ res' = Append(res, [entry |-> entry, out |-> out, rng |-> ghost.rng])
    /\ UNCHANGED <<pc, hdr, file, ghost>>

\* key::balloon_hash(secret, salt, HeaderVersion::V5)
KdfBalloonHash == KdfLog("balloon_hash", balloon_hash(ghost.secret, ghost.salt, "V5"))

\* Blake3BalloonHasher::new(version).hash_password(secret, salt)
KdfHasherHash ==
    KdfLog("hasher", Blake3BalloonHasher_hash_password(ghost.version, ghost.secret, ghost.salt))

\* hash_password(secret, salt, Version::V1)
KdfLibHash == KdfLog("hash_password", hash_password(ghost.secret, ghost.salt, "V1"))

\* generate_salt: the random number generator moves on.
KdfGenerateSalt ==
    /\ pc = "kdf"
    /\ ghost' = [ghost EXCEPT !.rng = (@ + 1) % RngStates]
    /\ UNCHANGED <<pc, hdr, file, res>>

KdfNext == KdfBalloonHash \/ KdfHasherHash \/ KdfLibHash \/ KdfGenerateSalt

SpecKdf == KdfInit /\ [][KdfNext]_vars

(***************************************************************************)
(* Single calls into the key derivation and the parameter versions: one    *)
(* function is called on one input, and returns.                           *)
(***************************************************************************)
\* ParameterVersion::from_u32 taking every number for the latest version.
ParameterVersion_from_u32_lenient(version) ==
    [ok |-> TRUE, err |-> "none", version |-> IF version = 4 THEN "V4" ELSE "V5"]

\* ParameterVersion::from_u32 (params.rs)
ParameterVersion_from_u32(version) ==
    IF version = 4 THEN [ok |-> TRUE, err |-> "none", version |-> "V4"]
    ELSE IF version = 5 THEN [ok |-> TRUE, err |-> "none", version |-> "V5"]
    ELSE [ok |-> FALSE, err |-> "UnsupportedVersion", version |-> "none"]

\* ParameterVersion::to_u32 (params.rs)
ParameterVersion_to_u32(version) == IF version = "V4" THEN 4 ELSE 5

\* Blake3BalloonHasher::hash_protected_password (hasher.rs)
Blake3BalloonHasher_hash_protected_password(version, password, salt) ==
    IF Len(password) = 0 THEN KeyErr("EmptyPassword")
    ELSE IF ~ParameterVersion_balloon_params(version).ok THEN KeyErr("ParameterInit")
    ELSE [ok |-> TRUE, err |-> "none",
          key |-> BalloonHashInto(ParameterVersion_balloon_params(version), password, salt)]

\* The parameter version bytes a keyslot may carry (u8).
HashVersionBytes == (0..15) \cup {255}

\* Version numbers given to from_u32 (u32).
U32Versions == {0, 1, 3, 4, 5, 6, 255, 260, 261, 65541, 2147483647}

CallInit ==
    /\ pc = "call"
    /\ hdr = NoHeader
    /\ file = <<>>
    /\ res = [ok |-> FALSE, err |-> "none"]
    /\ ghost = [kind |-> "none"]

\* One call of a key derivation entry point returns `out`.
CallKdf(fn, version, secret, salt, out) ==
    /\ pc = "call"
    /\ pc' = "returned"
    /\ ghost' = [kind |-> "call", fn |-> fn, version |-> version, secret |-> secret,
                 salt |-> salt]
    /\ res' = out
    /\ UNCHANGED <<hdr, file>>

\* HashingAlgorithm::Blake3Balloon(i).hash(secret, salt)
CallHashingAlgorithmHash ==
    \E i \in HashVersionBytes, secret \in KdfSecrets, salt \in KdfSalts :
      CallKdf("HashingAlgorithm_hash", i, secret, salt, HashingAlgorithm_hash(i, secret, salt))

\* key::balloon_hash(secret, salt, HeaderVersion::V5)
CallBalloonHash ==
    \E secret \in KdfSecrets, salt \in KdfSalts :
      CallKdf("balloon_hash", 5, secret, salt, balloon_hash(secret, salt, "V5"))

\* Blake3BalloonHasher::new(version).hash_password(secret, salt)
CallHasherHashPassword ==
    \E version \in ParameterVersions, secret \in KdfSecrets, salt \in KdfSalts :
      CallKdf("hash_password", ParameterVersion_to_u32(version), secret, salt,
              Blake3BalloonHasher_hash_password(version, secret, salt))

\* Blake3BalloonHasher::new(version).hash_protected_password(secret, salt)
CallHasherHashProtected ==
    \E version \in ParameterVersions, secret \in KdfSecrets, salt \in KdfSalts :
      CallKdf("hash_protected_password", ParameterVersion_to_u32(version), secret, salt,
              Blake3BalloonHasher_hash_protected_password(version, secret, salt))

\* ParameterVersion::from_u32(v)
CallFromU32 ==
    \E v \in U32Versions :
      /\ pc = "call"
      /\ pc' = "returned"
      /\ ghost' = [kind |-> "call", fn |-> "from_u32", version |-> v]
      /\ res' = ParameterVersion_from_u32(v)
      /\ UNCHANGED <<hdr, file>>

\* ParameterVersion::from_u32(x.to_u32())
CallFromU32OfToU32 ==
    \E x \in ParameterVersions :
      /\ pc = "call"
      /\ pc' = "returned"
      /\ ghost' = [kind |-> "call", fn |-> "from_u32_of_to_u32", version |-> x]
      /\ res' = ParameterVersion_from_u32(ParameterVersion_to_u32(x))
      /\ UNCHANGED <<hdr, file>>

\* The value of an ASCII character as a digit of radix 16, or -1 (char::to_digit).
to_digit(ch) ==
    IF ch \in 48..57 THEN ch - 48
    ELSE IF ch \in 97..102 THEN ch - 87
    ELSE IF ch \in 65..70 THEN ch - 55
    ELSE -1

\* The lower-case hexadecimal digit of a value below 16.
hex_digit(d) == IF d < 10 THEN 48 + d ELSE 87 + d

\* format!("{:02x}", byte)
format_02x(byte) == <<hex_digit(byte \div 16), hex_digit(byte % 16)>>

\* std::str::from_utf8 on a chunk of at most two bytes.
from_utf8_ok(chunk) ==
    \/ \A i \in 1..Len(chunk) : chunk[i] < 128
    \/ Len(chunk) = 2 /\ chunk[1] \in 194..223 /\ chunk[2] \in 128..191

\* The digits of `src` after an optional plus sign.
radix_digits(src) == IF src[1] = 43 THEN Tail(src) ELSE src

RECURSIVE radix_value(_)
radix_value(digits) ==
    IF digits = <<>> THEN 0
    ELSE 16 * radix_value(SubSeq(digits, 1, Len(digits) - 1)) + to_digit(digits[Len(digits)])

\* u8::from_str_radix(src, 16): an optional '+', then hexadecimal digits.
u8_from_str_radix(src) ==
    IF Len(src) = 0 THEN [ok |-> FALSE, value |-> 0]
    ELSE IF Len(src) = 1 /\ src[1] \in {43, 45} THEN [ok |-> FALSE, value |-> 0]
    ELSE IF \E i \in 1..Len(radix_digits(src)) : to_digit(radix_digits(src)[i]) = -1
      THEN [ok |-> FALSE, value |-> 0]
    ELSE IF radix_value(radix_digits(src)) > 255 THEN [ok |-> FALSE, value |-> 0]
    ELSE [ok |-> TRUE, value |-> radix_value(radix_digits(src))]

\* hex_str.as_bytes().chunks(2), for a string of even length.
chunks2(str) == [i \in 1..(Len(str) \div 2) |-> SubSeq(str, 2 * i - 1, 2 * i)]

SaltErr(kind) == [ok |-> FALSE, err |-> kind, salt |-> <<>>]

\* salt_from_hex (salt.rs)
salt_from_hex(hex_str) ==
    IF Len(hex_str) # SALT_LEN * 2 THEN SaltErr("InvalidLength")
    ELSE IF \E i \in 1..SALT_LEN : ~from_utf8_ok(chunks2(hex_str)[i])
      THEN SaltErr("InvalidUtf8")
    ELSE IF \E i \in 1..SALT_LEN : ~u8_from_str_radix(chunks2(hex_str)[i]).ok
      THEN SaltErr("InvalidHex")
    ELSE [ok |-> TRUE, err |-> "none",
          salt |-> [i \in 1..SALT_LEN |-> u8_from_str_radix(chunks2(hex_str)[i]).value]]

RECURSIVE concat(_)
concat(parts) == IF parts = <<>> THEN <<>> ELSE Head(parts) \o concat(Tail(parts))

\* salt_to_hex (salt.rs)
salt_to_hex(salt) == concat([i \in 1..Len(salt) |-> format_02x(salt[i])])

\* Salts that between them hold every byte value.
HexSalts == {[i \in 1..SALT_LEN |-> 16 * k + i - 1] : k \in 0..15}

\* Characters put into a hexadecimal string: digits of both cases, their
\* neighbours in ASCII, signs, a blank, NUL and bytes of a two-byte character.
HexChars == {48, 57, 97, 102, 65, 70, 47, 58, 96, 103, 64, 71, 43, 45, 32, 0, 195, 169}

\* Strings given to salt_from_hex: a hexadecimal string with one character
\* replaced, and strings of other lengths.
HexStrings ==
    {Patch(salt_to_hex(Zeros(SALT_LEN)), at, <<ch>>) : at \in 0..(2 * SALT_LEN - 1), ch \in HexChars}
      \cup {Fill(n, 97) : n \in {0, 1, 2, 30, 31, 33, 34, 64}}

\* salt_from_hex(salt_to_hex(salt))
CallSaltRoundTrip ==
    \E salt \in HexSalts :
      /\ pc = "call"
      /\ pc' = "returned"
      /\ ghost' = [kind |-> "call", fn |-> "salt_round_trip", salt |-> salt,
                   str |-> salt_to_hex(salt)]
      /\ res' = salt_from_hex(salt_to_hex(salt))
      /\ UNCHANGED <<hdr, file>>

\* salt_from_hex(str)
CallSaltFromHex ==
    \E str \in HexStrings :
      /\ pc = "call"
      /\ pc' = "returned"
      /\ ghost' = [kind |-> "call", fn |-> "salt_from_hex", str |-> str]
      /\ res' = salt_from_hex(str)
      /\ UNCHANGED <<hdr, file>>

\* The flags of the pack subcommand (cli.rs).
PackArgIds == {"erase", "verbose", "no-compression", "recursive", "hash", "force"}

\* get_matches: which of the flags the command line gave.
get_matches(argv) == [id \in PackArgIds |-> id \in argv]

\* Whether ArgMatches::is_present(id) ends the program: the id is not one of the
\* subcommand's arguments and the build asserts on that.
is_present_panics(matches, id, asserting) == id \notin DOMAIN matches /\ asserting

\* ArgMatches::is_present(id), where it returns.
is_present(matches, id) == IF id \in DOMAIN matches THEN matches[id] ELSE FALSE

\* pack_params (parameters.rs): the PackParams made from the matches.
pack_params(matches, asserting) ==
    IF is_present_panics(matches, "zstd", asserting)
      THEN [ok |-> FALSE, err |-> "panic"]
    ELSE [ok |-> TRUE, err |-> "none",
          print_mode |-> IF is_present(matches, "verbose") THEN "Verbose" ELSE "Quiet",
          dir_mode |-> IF is_present(matches, "recursive") THEN "Recursive" ELSE "Singular",
          erase_source |-> IF is_present(matches, "erase") THEN "Erase" ELSE "Retain",
          compression |-> IF is_present(matches, "zstd") THEN "Zstd" ELSE "None"]

\* dexios pack [flags]: get_matches, then pack_params
CallPackParams ==
    \E argv \in SUBSET PackArgIds, asserting \in BOOLEAN :
      /\ pc = "call"
      /\ pc' = "returned"
      /\ ghost' = [kind |-> "call", fn |-> "pack_params", argv |-> argv]
      /\ res' = pack_params(get_matches(argv), asserting)
      /\ UNCHANGED <<hdr, file>>

CallReturn ==
    /\ pc = "returned"
    /\ pc' = "call"
    /\ ghost' = [kind |-> "none"]
    /\ res' = [ok |-> FALSE, err |-> "none"]
    /\ UNCHANGED <<hdr, file>>

CallNext ==
    \/ CallHashingAlgorithmHash
    \/ CallBalloonHash
    \/ CallHasherHashPassword
    \/ CallHasherHashProtected
    \/ CallFromU32
    \/ CallFromU32OfToU32
    \/ CallSaltRoundTrip
    \/ CallSaltFromHex
    \/ CallPackParams
    \/ CallReturn

SpecCall == CallInit /\ [][CallNext]_vars

(***************************************************************************)
(* Headers moved through readers and writers: Header::write to a writer    *)
(* that takes some of the bytes it is offered, and Header::deserialize     *)
(* from a reader positioned inside a longer file.                          *)
(***************************************************************************)
\* Write::write(buf) on a writer that takes at most `accept` bytes in one call:
\* the number of bytes written.
Write_write(buf, accept) == IF Len(buf) < accept THEN Len(buf) ELSE accept

\* Header::write (header.rs): one call of write, whose count is dropped; Ok
\* unless the writer reports an error.
Header_write(h, written, accept, fails) ==
    IF SerializeOverflows(h) THEN [ok |-> FALSE, err |-> "Serialize", written |-> written]
    ELSE IF fails THEN [ok |-> FALSE, err |-> "Unable to write header", written |-> written]
    ELSE [ok |-> TRUE, err |-> "none",
          written |-> written \o SubSeq(serialize(h), 1, Write_write(serialize(h), accept))]

\* How many bytes the writer takes in one call.
WriteAccepts == {0, 1, 32, 415, 416, 4096}

\* Headers given to Header::write.
IoHeaders == {h \in SampleHeaders : Len(h.keyslots) <= 1}

\* Where the reader stands when Header::deserialize is called.
IoStarts == {0, 3}

\* What follows the header in the file.
IoCiphertext == <<201, 202, 203>>

\* Headers as they lie in a file, and ones with another first or second byte.
IoRawHeaders ==
    {Patch(serialize(h), at, <<b>>) : h \in IoHeaders, at \in {0, 1}, b \in {222, 5, 0, 4}}

IoInit ==
    /\ pc \in {"to_write", "to_read"}
    /\ res = NoRes
    /\ IF pc = "to_write"
       THEN /\ hdr \in IoHeaders
            /\ file = <<>>
            /\ ghost = [kind |-> "io", start |-> 0]
       ELSE /\ hdr = NoHeader
            /\ \E raw \in IoRawHeaders, start \in IoStarts :
                 /\ file = Fill(start, 9) \o raw \o IoCiphertext
                 /\ ghost = [kind |-> "io", start |-> start]

\* header.write(&mut writer)
IoHeaderWrite ==
    /\ pc = "to_write"
    /\ \E accept \in WriteAccepts, fails \in BOOLEAN :
         /\ res' = Header_write(hdr, file, accept, fails)
         /\ file' = Header_write(hdr, file, accept, fails).written
    /\ pc' = "written"
    /\ UNCHANGED <<hdr, ghost>>

\* Header::deserialize(&mut reader)
IoHeaderDeserialize ==
    /\ pc = "to_read"
    /\ res' = deserialize(file, ghost.start)
    /\ pc' = "read"
    /\ UNCHANGED <<hdr, file, ghost>>

IoNext == IoHeaderWrite \/ IoHeaderDeserialize

SpecIo == IoInit /\ [][IoNext]_vars

(***************************************************************************)
(* generate_passphrase (key.rs): total_words times, an index is drawn and  *)
(* the word at that index is appended, with a '-' after every word but the *)
(* last.                                                                   *)
(***************************************************************************)
\* The lines of the word list (a short list stands for the 7776 words).
words == <<"abacus", "abdomen", "ability", "zoom">>

\* The largest total_words asked for.
MaxWords == 3

\* gen_range(0..=words.len()): the indices that may be drawn.
gen_range_inclusive(lo, hi) == lo..hi

\* The indexing words[index] panics when the index is out of bounds.
index_in_bounds(index) == index < Len(words)

PassphraseInit ==
    /\ pc = "loop"
    /\ hdr = NoHeader
    /\ file = <<>>
    /\ res = NoRes
    /\ \E total_words \in 0..MaxWords :
         ghost = [kind |-> "passphrase", total_words |-> total_words, i |-> 0,
                  indices |-> <<>>]

\* One iteration of the loop: `file` holds the passphrase built so far, a
\* sequence of words and separators.
PassphraseStep ==
    /\ pc = "loop"
    /\ ghost.i < ghost.total_words
    /\ \E index \in gen_range_inclusive(0, Len(words)) :
         /\ ghost' = [ghost EXCEPT !.i = @ + 1, !.indices = Append(@, index)]
         /\ IF ~index_in_bounds(index)
            THEN /\ pc' = "panicked"
                 /\ res' = [ok |-> FALSE, err |-> "index out of bounds"]
                 /\ file' = file
            ELSE /\ pc' = "loop"
                 /\ res' = res
                 /\ file' = IF ghost.i < ghost.total_words - 1
                            THEN file \o <<words[index + 1], "-">>
                            ELSE file \o <<words[index + 1]>>
    /\ UNCHANGED hdr

\* The loop is over: Protected::new(passphrase) is returned.
PassphraseReturn ==
    /\ pc = "loop"
    /\ ghost.i >= ghost.total_words
    /\ pc' = "returned"
    /\ res' = [ok |-> TRUE, err |-> "none"]
    /\ UNCHANGED <<hdr, file, ghost>>

PassphraseNext == PassphraseStep \/ PassphraseReturn

SpecPassphrase == PassphraseInit /\ [][PassphraseNext]_vars

(***************************************************************************)
(* What balloon_hash and decrypt_master_key leave in memory.  Each buffer  *)
(* that held a secret during the call is listed with the bytes it holds    *)
(* when the call returns; the value handed back to the caller is not in    *)
(* the list.                                                               *)
(***************************************************************************)
\* Protected::drop (protected.rs): the data is zeroized.
Protected_drop(data) == Zeros(Len(data))

Buffer(name, bytes) == [name |-> name, bytes |-> bytes]

\* The local `key` of balloon_hash when it returns: hash_into has written the
\* derived key into this plain array, Protected::new(key) took a copy of it,
\* and nothing clears the array.
balloon_hash_key_local(raw_key, salt, hash_fails) ==
    IF hash_fails THEN Zeros(32)
    ELSE BalloonHashInto(BalloonParamsNew(278528, 1, 1), raw_key, salt)

\* balloon_hash (key.rs): the buffers it leaves.  raw_key is a Protected value
\* owned by the call: dropped explicitly after hashing, or on the early return.
balloon_hash_buffers(raw_key, salt, hash_fails) ==
    <<Buffer("raw_key", Protected_drop(raw_key)),
      Buffer("key", balloon_hash_key_local(raw_key, salt, hash_fails))>>

\* The result of balloon_hash when the hasher may fail.
balloon_hash_result(raw_key, salt, hash_fails) ==
    IF hash_fails THEN KeyErr("Error while hashing your key")
    ELSE balloon_hash(raw_key, salt, "V5")

\* HashingAlgorithm::hash: an unsupported version drops the secret it was given.
HashingAlgorithm_hash_buffers(i, raw_key, salt) ==
    IF i = 5 THEN balloon_hash_buffers(raw_key, salt, FALSE)
    ELSE <<Buffer("raw_key", Protected_drop(raw_key))>>

\* The closure of decrypt_master_key on one keyslot: the clone of the secret
\* goes to hash; the derived key, a Protected value, goes to the cipher and is
\* dropped with it; the decrypted vector is zeroized by vec_to_arr.
try_keyslot_buffers(raw_key, header, keyslot) ==
    IF ~HashingAlgorithm_hash(keyslot.hash_algorithm, raw_key, keyslot.salt).ok
    THEN HashingAlgorithm_hash_buffers(keyslot.hash_algorithm, raw_key, keyslot.salt)
    ELSE HashingAlgorithm_hash_buffers(keyslot.hash_algorithm, raw_key, keyslot.salt)
           \o <<Buffer("cipher key",
                       Protected_drop(HashingAlgorithm_hash(keyslot.hash_algorithm, raw_key,
                                                            keyslot.salt).key)),
                Buffer("master_key_vec", Zeros(MASTER_KEY_LEN))>>

\* decrypt_master_key: the buffers left by the keyslots find_map looked at.
RECURSIVE find_map_buffers(_, _, _)
find_map_buffers(raw_key, header, i) ==
    IF i > Len(header.keyslots) THEN <<>>
    ELSE IF try_keyslot(raw_key, header, header.keyslots[i]).ok
      THEN try_keyslot_buffers(raw_key, header, header.keyslots[i])
    ELSE try_keyslot_buffers(raw_key, header, header.keyslots[i])
           \o find_map_buffers(raw_key, header, i + 1)

decrypt_master_key_buffers(raw_key, header) == find_map_buffers(raw_key, header, 1)

\* The keyslots of the headers decrypt_master_key is run on.
MemorySlotKinds == SeqsUpTo(SlotKinds, 2)

MemorySecrets == {<<112>>, <<113>>}

MemoryInit ==
    /\ pc \in {"hash", "unlock"}
    /\ file = <<>>
    /\ res = NoRes
    /\ IF pc = "hash"
       THEN /\ hdr = NoHeader
            /\ \E raw_key \in KdfSecrets, salt \in KdfSalts :
                 ghost = [kind |-> "memory", raw_key |-> raw_key, salt |-> salt,
                          left |-> <<>>]
       ELSE \E t \in HeaderTypes, kinds \in MemorySlotKinds, raw_key \in MemorySecrets :
              /\ t.mode = "MemoryMode"
              /\ hdr = [header_type |-> t,
                        nonce |-> gen_nonce(t.algorithm, t.mode, 1),
                        keyslots |-> [i \in 1..Len(kinds) |->
                                        KeyslotOfKind(kinds[i], t.algorithm)]]
              /\ ghost = [kind |-> "memory", raw_key |-> raw_key, salt |-> <<>>,
                          left |-> <<>>]

\* balloon_hash(raw_key, salt, V5), the hasher failing or not.
MemoryBalloonHash ==
    /\ pc = "hash"
    /\ \E hash_fails \in BOOLEAN :
         /\ res' = balloon_hash_result(ghost.raw_key, ghost.salt, hash_fails)
         /\ ghost' = [ghost EXCEPT
                        !.left = balloon_hash_buffers(ghost.raw_key, ghost.salt, hash_fails)]
    /\ pc' = "hashed"
    /\ UNCHANGED <<hdr, file>>

\* decrypt_master_key(&raw_key, &header)
MemoryDecryptMasterKey ==
    /\ pc = "unlock"
    /\ res' = decrypt_master_key(ghost.raw_key, hdr)
    /\ ghost' = [ghost EXCEPT !.left = decrypt_master_key_buffers(ghost.raw_key, hdr)]
    /\ pc' = "unlocked"
    /\ UNCHANGED <<hdr, file>>

MemoryNext == MemoryBalloonHash \/ MemoryDecryptMasterKey

SpecMemory == MemoryInit /\ [][MemoryNext]_vars

(***************************************************************************)
(* pack::execute (dexios-domain/src/pack.rs): a temporary file is created, *)
(* the entries are copied into an archive in it, the archive is encrypted, *)
(* and the temporary file is overwritten and removed.  Every call that can *)
(* fail does so or not; `file` holds the archive, one element per entry.   *)
(***************************************************************************)
\* The entries to pack: directories, and files of every length up to the bound.
PackEntries ==
    {[dir |-> TRUE, bytes |-> <<>>]}
      \cup {[dir |-> FALSE, bytes |-> p] : p \in Plaintexts}

\* How many entries a request holds at most.
MaxEntries == 2

\* Read::read into a buffer of `len` bytes with `remaining` bytes before the end
\* of the file: the counts it may return.  Zero means the end of the file.
Read_read(len, remaining) ==
    IF remaining = 0 THEN {0}
    ELSE 1..(IF remaining < len THEN remaining ELSE len)

PackInit ==
    /\ pc = "create_temp_file"
    /\ hdr = NoHeader
    /\ file = <<>>
    /\ res = NoRes
    /\ \E compress_files \in SeqsUpTo(PackEntries, MaxEntries) :
         ghost = [kind |-> "pack", compress_files |-> compress_files, done |-> 0,
                  pos |-> 0, tmp |-> "absent", overwritten |-> FALSE,
                  encrypt_ran |-> FALSE, encrypt_res |-> NoRes]

\* An early return with `err`.
PackFail(err) ==
    /\ pc' = "returned"
    /\ res' = [ok |-> FALSE, err |-> err]

\* 1. stor.create_temp_file()
PackCreateTempFile ==
    /\ pc = "create_temp_file"
    /\ \E fails \in BOOLEAN :
         IF fails THEN PackFail("CreateArchive") /\ ghost' = ghost
         ELSE pc' = "try_writer" /\ res' = res /\ ghost' = [ghost EXCEPT !.tmp = "present"]
    /\ UNCHANGED <<hdr, file>>

\* tmp_file.try_writer()
PackTryWriter ==
    /\ pc = "try_writer"
    /\ \E fails \in BOOLEAN :
         IF fails THEN PackFail("CreateArchive")
         ELSE pc' = "entries" /\ res' = res
    /\ UNCHANGED <<hdr, file, ghost>>

\* 2. The closure of try_for_each on a directory: add_directory.
PackAddDirectory ==
    /\ pc = "entries"
    /\ ghost.done < Len(ghost.compress_files)
    /\ ghost.compress_files[ghost.done + 1].dir
    /\ \E fails \in BOOLEAN :
         IF fails THEN PackFail("AddDirToArchive") /\ UNCHANGED <<file, ghost>>
         ELSE /\ pc' = "entries"
              /\ res' = res
              /\ file' = Append(file, [dir |-> TRUE, bytes |-> <<>>])
              /\ ghost' = [ghost EXCEPT !.done = @ + 1]
    /\ UNCHANGED hdr

\* The closure on a file: start_file and try_reader.
PackStartFile ==
    /\ pc = "entries"
    /\ ghost.done < Len(ghost.compress_files)
    /\ ~ghost.compress_files[ghost.done + 1].dir
    /\ \E err \in {"none", "AddFileToArchive", "ReadData"} :
         IF err # "none" THEN PackFail(err) /\ UNCHANGED <<file, ghost>>
         ELSE /\ pc' = "copy"
              /\ res' = res
              /\ file' = Append(file, [dir |-> FALSE, bytes |-> <<>>])
              /\ ghost' = [ghost EXCEPT !.pos = 0]
    /\ UNCHANGED hdr

\* The bytes of the file being copied, from the reader's position on.
PackSource == ghost.compress_files[ghost.done + 1].bytes

\* One iteration of the copy loop: read, write_all, and the test that ends it.
PackCopyBlock ==
    /\ pc = "copy"
    /\ \E read_count \in Read_read(BLOCK_SIZE, Len(PackSource) - ghost.pos) :
         /\ file' = [file EXCEPT ![Len(file)].bytes =
                       @ \o SubSeq(PackSource, ghost.pos + 1, ghost.pos + read_count)]
         /\ IF read_count # BLOCK_SIZE
            THEN pc' = "entries" /\ ghost' = [ghost EXCEPT !.done = @ + 1, !.pos = 0]
            ELSE pc' = "copy" /\ ghost' = [ghost EXCEPT !.pos = @ + read_count]
    /\ UNCHANGED <<hdr, res>>

\* The read or the write of an iteration fails.
PackCopyFails ==
    /\ pc = "copy"
    /\ \E err \in {"ReadData", "WriteData"} : PackFail(err)
    /\ UNCHANGED <<hdr, file, ghost>>

\* 3. zip_writer.finish()
PackFinish ==
    /\ pc = "entries"
    /\ ghost.done = Len(ghost.compress_files)
    /\ \E fails \in BOOLEAN :
         IF fails THEN PackFail("FinishArchive") ELSE pc' = "file_len" /\ res' = res
    /\ UNCHANGED <<hdr, file, ghost>>

\* stor.file_len(&tmp_file)
PackFileLen ==
    /\ pc = "file_len"
    /\ \E fails \in BOOLEAN :
         IF fails THEN PackFail("FinishArchive") ELSE pc' = "encrypt" /\ res' = res
    /\ UNCHANGED <<hdr, file, ghost>>

\* 4. tmp_file.try_reader(), then encrypt::execute, whose result is kept.
PackEncrypt ==
    /\ pc = "encrypt"
    /\ \E outcome \in {"no reader", "Ok", "Encrypt"} :
         IF outcome = "no reader" THEN PackFail("FinishArchive") /\ ghost' = ghost
         ELSE /\ pc' = "overwrite"
              /\ res' = res
              /\ ghost' = [ghost EXCEPT
                             !.encrypt_ran = TRUE,
                             !.encrypt_res = [ok |-> outcome = "Ok",
                                              err |-> IF outcome = "Ok" THEN "none"
                                                      ELSE "Encrypt"]]
    /\ UNCHANGED <<hdr, file>>

\* 5. tmp_file.try_writer(), then overwrite::execute, whose result is dropped.
PackOverwrite ==
    /\ pc = "overwrite"
    /\ \E outcome \in {"no writer", "Ok", "Err"} :
         IF outcome = "no writer" THEN PackFail("FinishArchive") /\ ghost' = ghost
         ELSE /\ pc' = "remove_file"
              /\ res' = res
              /\ ghost' = [ghost EXCEPT !.overwritten = (outcome = "Ok")]
    /\ UNCHANGED <<hdr, file>>

\* stor.remove_file(tmp_file), whose result is dropped; encrypt_res is returned.
PackRemoveFile ==
    /\ pc = "remove_file"
    /\ \E fails \in BOOLEAN :
         ghost' = [ghost EXCEPT !.tmp = IF fails THEN @ ELSE "removed"]
    /\ pc' = "returned"
    /\ res' = ghost.encrypt_res
    /\ UNCHANGED <<hdr, file>>

PackNext ==
    \/ PackCreateTempFile
    \/ PackTryWriter
    \/ PackAddDirectory
    \/ PackStartFile
    \/ PackCopyBlock
    \/ PackCopyFails
    \/ PackFinish
    \/ PackFileLen
    \/ PackEncrypt
    \/ PackOverwrite
    \/ PackRemoveFile

SpecPack == PackInit /\ [][PackNext]_vars

(***************************************************************************)
(* Properties of the header codec                                          *)
(***************************************************************************)
\* The 96-byte slot region number k (0..3) of a raw header.
Region(bytes, k) == Slice(bytes, AAD_LEN + SLOT_LEN * k, SLOT_LEN)

\* The wire tags of section 4.5 of the specification.
WireAlgorithm(algorithm) == IF algorithm = "XChaCha20Poly1305" THEN <<14, 1>> ELSE <<14, 2>>

WireMode(mode) == IF mode = "StreamMode" THEN <<12, 1>> ELSE <<12, 2>>

\* Region `region` holds keyslot `k` in the layout of section 4.5.
RegionHolds(region, k, algorithm) ==
    LET m == get_nonce_len(algorithm, "MemoryMode")
    IN  /\ Len(region) = SLOT_LEN
        /\ Slice(region, 2, 48) = k.encrypted_key
        /\ Slice(region, 50, m) = k.nonce
        /\ Slice(region, 50 + m, 24 - m) = Zeros(24 - m)
        /\ Slice(region, 74, 16) = k.salt
        /\ Slice(region, 90, 6) = Zeros(6)

\* C3: Header::serialize returns exactly 416 bytes, the value of get_size, for
\* every header with 0 to 4 keyslots: 6 tag bytes, the payload nonce zero-padded
\* to offset 32, then four 96-byte slot regions at offsets 32, 128, 224, 320.
C3_SerializeIs416 ==
    pc = "serialized" =>
      LET t == hdr.header_type
          n == get_nonce_len(t.algorithm, t.mode)
      IN  /\ Len(file) = 416
          /\ Len(file) = res.size
          /\ Slice(file, 0, 6) = <<222, 5>> \o WireAlgorithm(t.algorithm) \o WireMode(t.mode)
          /\ Slice(file, 6, n) = hdr.nonce
          /\ Slice(file, 6 + n, 26 - n) = Zeros(26 - n)
          /\ \A k \in 0..3 :
               IF k < Len(hdr.keyslots)
               THEN RegionHolds(Region(file, k), hdr.keyslots[k + 1], t.algorithm)
               ELSE Region(file, k) = Zeros(96)

C3_Witness ==
    /\ pc = "serialized"
    /\ Len(hdr.keyslots) = 2
    /\ hdr.header_type.mode = "StreamMode"
    /\ Len(file) = 416

\* A raw header is valid when its tags are valid (the samples' are) and each slot
\* region is either 96 zero bytes or begins with the identifier DF B5.
ValidRegion(region) == region = Zeros(SLOT_LEN) \/ Slice(region, 0, 2) = <<223, 181>>

ValidRaw(bytes) == Len(bytes) = 416 /\ \A k \in 0..3 : ValidRegion(Region(bytes, k))

\* C4: for every valid 416-byte header, serialize(deserialize(bytes)) = bytes.
C4_RoundTrip ==
    (pc = "reserialized" /\ ValidRaw(file)) => res.bytes = file

\* The keyslots of the populated regions of a raw header, in wire order, each with
\* its own region's fields.
RECURSIVE RegionKeyslots(_, _, _)
RegionKeyslots(bytes, k, m) ==
    IF k > 3 THEN <<>>
    ELSE
      LET region == Region(bytes, k)
          rest == RegionKeyslots(bytes, k + 1, m)
      IN  IF region[1] # 223 THEN rest
          ELSE <<[hash_algorithm |-> 5,
                  encrypted_key |-> Slice(region, 2, 48),
                  nonce |-> Slice(region, 50, m),
                  salt |-> Slice(region, 74, 16)]>> \o rest

\* C5: deserialize treats the four slot regions independently: a region whose
\* first byte is not 0xDF is skipped in full, and every populated region, also one
\* after an empty region, is returned as a keyslot with its own fields.
C5_RegionsIndependent ==
    pc = "parsed" =>
      /\ res.ok
      /\ res.header.keyslots =
           RegionKeyslots(file, 0,
                          get_nonce_len(res.header.header_type.algorithm, "MemoryMode"))

\* C6: create_aad(H) is the first 32 bytes of serialize(H), it does not depend on
\* the keyslots of H, and deserialize returns it as the AAD of serialize(H).
C6_AadIsFirst32 ==
    /\ pc = "serialized" =>
         /\ res.aad = Slice(file, 0, 32)
         /\ res.aad = create_aad([hdr EXCEPT !.keyslots = <<>>])
         /\ \A k \in SampleKeyslots(hdr.header_type.algorithm) :
              Len(hdr.keyslots) > 0 =>
                create_aad([hdr EXCEPT !.keyslots[1] = k]) = res.aad
    /\ pc = "reparsed" => (res.ok /\ res.aad = create_aad(hdr))

C6_Witness ==
    /\ pc = "reparsed"
    /\ res.ok
    /\ Len(hdr.keyslots) = 3
    /\ Len(res.aad) = 32

(***************************************************************************)
(* Properties of envelopes                                                 *)
(***************************************************************************)
\* C1: decrypting what encrypt wrote, with the same secret, succeeds and yields
\* the original plaintext, for every plaintext, secret, algorithm and mode.
C1_DecryptInvertsEncrypt ==
    (pc = "decrypted" /\ ~ghost.flipped /\ res.raw_key = ghost.raw_key)
      => (res.ok /\ res.data = ghost.plaintext)

C1_Witness ==
    /\ pc = "decrypted"
    /\ ~ghost.flipped
    /\ res.raw_key = ghost.raw_key
    /\ ghost.header_type.mode = "StreamMode"
    /\ Len(ghost.plaintext) = 2 * BLOCK_SIZE
    /\ res.ok
    /\ res.data = ghost.plaintext

\* C2: decrypting with a secret other than the one the envelope was encrypted
\* under fails with the no-matching-key or the cipher authentication error and
\* returns neither a master key nor plaintext.
C2_WrongSecretFails ==
    (pc = "decrypted" /\ ~ghost.flipped /\ res.raw_key # ghost.raw_key)
      => /\ ~res.ok
         /\ res.err \in {"NoMatchingKey", "CipherAuth"}
         /\ res.data = <<>>
         /\ ~decrypt_master_key(res.raw_key, deserialize(file, 0).header).ok

C2_Witness ==
    /\ pc = "decrypted"
    /\ ~ghost.flipped
    /\ res.raw_key = <<112, 113>>
    /\ ghost.raw_key = <<112>>
    /\ res.err = "NoMatchingKey"

\* C7: after one bit of the first 32 bytes of a valid envelope is flipped,
\* decryption with the correct secret fails and returns no plaintext.
C7_BitFlipFails ==
    (pc = "decrypted" /\ ghost.flipped) => (~res.ok /\ res.data = <<>>)

\* A flip in the zero padding, which only the AAD check can notice.
C7_Witness ==
    /\ pc = "decrypted"
    /\ ghost.flipped
    /\ res.raw_key = ghost.raw_key
    /\ file[32] # 0
    /\ res.err = "CipherAuth"

(***************************************************************************)
(* Properties of decrypt_master_key                                        *)
(***************************************************************************)
\* The keyslots, by index, that the secret unlocks: made from that secret under
\* a supported parameter version.
Unlocking(kinds, raw_key) ==
    {i \in 1..Len(kinds) : kinds[i].raw_key = raw_key /\ kinds[i].version = 5}

Least(S) == CHOOSE i \in S : \A j \in S : i <= j

\* C8: decrypt_master_key returns the master key of the first keyslot, in header
\* order, that the secret unlocks, passing over the keyslots whose derivation or
\* unwrap fails; it fails with the no-matching-key error exactly when no keyslot
\* unwraps, also for a header with no keyslots.
C8_FirstMatchingSlot ==
    pc = "unlocked" =>
      LET hits == Unlocking(ghost.kinds, ghost.raw_key)
      IN  IF hits = {}
          THEN ~res.ok /\ res.err = "NoMatchingKey" /\ res.key = <<>>
          ELSE res.ok /\ res.key = gen_master_key(ghost.kinds[Least(hits)].master)

\* The third keyslot is the first to unwrap: the first names an unsupported
\* version, the second was made from another secret, the fourth wraps another key.
C8_Witness ==
    /\ pc = "unlocked"
    /\ Len(ghost.kinds) = 4
    /\ ghost.raw_key = <<112>>
    /\ ghost.kinds[1].version = 4
    /\ ghost.kinds[2].raw_key = <<113>>
    /\ Unlocking(ghost.kinds, ghost.raw_key) = {3, 4}
    /\ ghost.kinds[3].master # ghost.kinds[4].master
    /\ res.ok
    /\ res.key = gen_master_key(ghost.kinds[3].master)

(***************************************************************************)
(* Properties of the keyslot manager                                       *)
(***************************************************************************)
\* The first slot, in wire order, of `bytes` that the secret unwraps.
FirstUnlocked(bytes, raw_key) ==
    MinOf(UnlockedSlots(bytes, raw_key, deserialize(bytes, 0).header))

\* C9: after add_key(old, new) succeeds, verify_key(new) and verify_key(old) are
\* both true, both secrets unwrap the same master key (the one the file was
\* encrypted under), and the slot that old unlocked holds the bytes it held before.
C9_AddKeepsBothSecrets ==
    (pc = "done" /\ res.op = "add_key" /\ res.ok) =>
      /\ verify_key(file, res.new)
      /\ verify_key(file, res.old)
      /\ unlock(file, res.new).key = unlock(file, res.old).key
      /\ unlock(file, res.old).key = ghost.master_key
      /\ SlotRegion(file, FirstUnlocked(res.before, res.old))
           = SlotRegion(res.before, FirstUnlocked(res.before, res.old))

\* A third secret-bearing slot is added with a secret other than the old one.
C9_Witness ==
    /\ pc = "done"
    /\ res.op = "add_key"
    /\ res.ok
    /\ res.new # res.old
    /\ Cardinality(PopulatedSlots(res.before)) = 2
    /\ Cardinality(PopulatedSlots(file)) = 3
    /\ verify_key(file, res.new)

\* C10: whatever encrypt, add_key, change_key and del_key have done, the header
\* is 416 bytes of four slot regions and parses to at most four keyslots, so that
\* serialize has no overflow to meet; add_key on a header whose four slots are
\* populated fails with NoEmptySlot and leaves the bytes as they were.
C10_AtMostFourKeyslots ==
    /\ pc \in {"header", "done"} =>
         /\ Len(file) = HEADER_LEN
         /\ LET d == deserialize(file, 0)
            IN  d.ok /\ Len(d.header.keyslots) <= NUM_SLOTS /\ ~SerializeOverflows(d.header)
    /\ (pc = "done" /\ res.op = "add_key" /\ EmptySlots(res.before) = {}
          /\ verify_key(res.before, res.old))
         => (~res.ok /\ res.err = "NoEmptySlot" /\ file = res.before)

\* add_key is refused on a full header that the old secret unlocks.
C10_Witness ==
    /\ pc = "done"
    /\ res.op = "add_key"
    /\ PopulatedSlots(res.before) = 0..(NUM_SLOTS - 1)
    /\ verify_key(res.before, res.old)
    /\ res.err = "NoEmptySlot"
    /\ file = res.before

\* The slots of `bytes`, as regions on the wire, that the secret unwraps.
WireUnlocked(bytes, raw_key) ==
    UnlockedSlots(bytes, raw_key, deserialize(bytes, 0).header)

\* C11: after change_key(old, new) succeeds with new other than old and old
\* unwrapping exactly one slot, verify_key(new) is true and verify_key(old) is
\* false, as many slots are populated as before, and new unwraps the master key
\* the file was encrypted under.
C11_ChangeReplacesSecret ==
    (pc = "done" /\ res.op = "change_key" /\ res.ok /\ res.new # res.old
       /\ Cardinality(WireUnlocked(res.before, res.old)) = 1)
      => /\ verify_key(file, res.new)
         /\ ~verify_key(file, res.old)
         /\ Cardinality(PopulatedSlots(file)) = Cardinality(PopulatedSlots(res.before))
         /\ unlock(file, res.new).key = ghost.master_key

\* The secret of the first of two slots is changed.
C11_Witness ==
    /\ pc = "done"
    /\ res.op = "change_key"
    /\ res.ok
    /\ res.new # res.old
    /\ WireUnlocked(res.before, res.old) = {0}
    /\ PopulatedSlots(file) = {0, 1}
    /\ SlotRegion(file, 0) # SlotRegion(res.before, 0)
    /\ ~verify_key(file, res.old)

\* C12: after del_key(old) succeeds the region of the slot that old unlocked is
\* 96 zero bytes, the other regions and the first 32 bytes are as before, and
\* verify_key(old) is false; del_key with a secret that unwraps the only
\* populated slot fails with LastSlot and leaves the bytes as they were.
C12_DelZeroesOneSlot ==
    /\ (pc = "done" /\ res.op = "del_key" /\ res.ok) =>
         /\ SlotRegion(file, FirstUnlocked(res.before, res.old)) = Zeros(SLOT_LEN)
         /\ \A k \in 0..(NUM_SLOTS - 1) :
              k # FirstUnlocked(res.before, res.old)
                => SlotRegion(file, k) = SlotRegion(res.before, k)
         /\ Slice(file, 0, AAD_LEN) = Slice(res.before, 0, AAD_LEN)
         /\ ~verify_key(file, res.old)
    /\ (pc = "done" /\ res.op = "del_key"
          /\ Cardinality(PopulatedSlots(res.before)) = 1
          /\ WireUnlocked(res.before, res.old) # {})
         => (~res.ok /\ res.err = "LastSlot" /\ file = res.before)

(***************************************************************************)
(* Properties of the stream codec and of damaged envelopes                 *)
(***************************************************************************)
\* The ciphertext of an envelope: what follows the 416 header bytes.
Ciphertext(envelope) == SubSeq(envelope, HEADER_LEN + 1, Len(envelope))

\* Sealed block number i of a stream ciphertext holding a plaintext of length L.
SealedBlock(ct, i, L) ==
    IF i < L \div BLOCK_SIZE
    THEN Slice(ct, i * (BLOCK_SIZE + TAG_LEN), BLOCK_SIZE + TAG_LEN)
    ELSE Slice(ct, i * (BLOCK_SIZE + TAG_LEN), (L % BLOCK_SIZE) + TAG_LEN)

\* Block i of the envelope in `file`, opened as final or as non-final.
OpenBlock(i, last) ==
    AeadDecrypt(ghost.header_type.algorithm, ghost.master_key,
                StreamNonce(Slice(file, 6, get_nonce_len(ghost.header_type.algorithm,
                                                         "StreamMode")), i, last),
                SealedBlock(Ciphertext(file), i, Len(ghost.plaintext)),
                Slice(file, 0, AAD_LEN))

\* C13: a stream-mode ciphertext of a plaintext of length L is floor(L/B)+1
\* sealed blocks in source order: floor(L/B) non-final blocks of B bytes and one
\* final block of L mod B bytes (empty when B divides L); the last block, and
\* no other, opens under the terminal marker.
C13_StreamBlocks ==
    (pc = "encrypted" /\ ghost.cut = 0 /\ ~ghost.changed
       /\ ghost.header_type.mode = "StreamMode")
      => LET L == Len(ghost.plaintext)
             n == L \div BLOCK_SIZE
         IN  /\ Len(Ciphertext(file)) = L + (n + 1) * TAG_LEN
             /\ \A i \in 0..(n - 1) :
                  /\ OpenBlock(i, FALSE).ok
                  /\ OpenBlock(i, FALSE).data
                       = Slice(ghost.plaintext, i * BLOCK_SIZE, BLOCK_SIZE)
                  /\ ~OpenBlock(i, TRUE).ok
             /\ OpenBlock(n, TRUE).ok
             /\ OpenBlock(n, TRUE).data
                  = Slice(ghost.plaintext, n * BLOCK_SIZE, L % BLOCK_SIZE)
             /\ ~OpenBlock(n, FALSE).ok

\* A plaintext of two whole blocks: two non-final blocks and an empty final one.
C13_Witness ==
    /\ pc = "encrypted"
    /\ ghost.cut = 0
    /\ ~ghost.changed
    /\ ghost.header_type.mode = "StreamMode"
    /\ Len(ghost.plaintext) = 2 * BLOCK_SIZE
    /\ Len(Ciphertext(file)) = 2 * BLOCK_SIZE + 3 * TAG_LEN
    /\ OpenBlock(2, TRUE).ok

\* C14: a stream-mode envelope whose ciphertext has lost a suffix of one byte or
\* more does not decrypt: decrypt fails with the authentication error and
\* returns no plaintext.
C14_TruncationFails ==
    (pc = "decrypted" /\ ghost.cut > 0 /\ ghost.header_type.mode = "StreamMode")
      => (~res.ok /\ res.err = "CipherAuth" /\ res.data = <<>>)

\* The empty final block is cut off whole: what is left ends on a block boundary.
C14_Witness ==
    /\ pc = "decrypted"
    /\ ghost.header_type.mode = "StreamMode"
    /\ Len(ghost.plaintext) = BLOCK_SIZE
    /\ ghost.cut = TAG_LEN
    /\ res.err = "CipherAuth"

\* C17: once byte 3 of the header of a valid envelope holds another value,
\* decrypt fails with the cipher authentication error and no other.
C17_AlgorithmByteIsCipherAuth ==
    (pc = "decrypted" /\ ghost.changed) => (~res.ok /\ res.err = "CipherAuth")

(***************************************************************************)
(* Properties of the header codec on other inputs                          *)
(***************************************************************************)
BadVersionTag(bytes) == Len(bytes) >= 2 /\ Slice(bytes, 0, 2) # <<222, 5>>

BadAlgorithmTag(bytes) ==
    Len(bytes) >= 4 /\ Slice(bytes, 2, 2) \notin {<<14, 1>>, <<14, 2>>}

BadModeTag(bytes) ==
    Len(bytes) >= 6 /\ Slice(bytes, 4, 2) \notin {<<12, 1>>, <<12, 2>>}

\* C15: deserialize returns an error and no Header for every input whose bytes
\* 0-1 are not DE 05, whose bytes 2-3 are neither 0E 01 nor 0E 02, or whose
\* bytes 4-5 are neither 0C 01 nor 0C 02; on a whole header the first bad tag
\* decides the error, and the three errors are three different kinds.
C15_BadTagsRejected ==
    pc = "parsed" =>
      /\ (BadVersionTag(file) \/ BadAlgorithmTag(file) \/ BadModeTag(file))
           => (~res.ok /\ res.header = NoHeader)
      /\ BadVersionTag(file) => res.err = "BadVersion"
      /\ (Len(file) >= HEADER_LEN /\ ~BadVersionTag(file) /\ BadAlgorithmTag(file))
           => res.err = "BadAlgorithm"
      /\ (Len(file) >= HEADER_LEN /\ ~BadVersionTag(file) /\ ~BadAlgorithmTag(file)
            /\ BadModeTag(file))
           => res.err = "BadMode"

\* A whole header whose only bad tag is the mode.
C15_Witness ==
    /\ pc = "parsed"
    /\ Len(file) = HEADER_LEN
    /\ Slice(file, 0, 6) = <<222, 5, 14, 2, 13, 1>>
    /\ ~res.ok
    /\ res.err = "BadMode"

\* C16: deserialize fails with the bad-slot-tag error when any of the four slot
\* regions of a header with valid tags begins with 0xDF and another byte than
\* 0xB5, and every keyslot it returns is a Blake3Balloon(5) one.
C16_BadSlotTagRejected ==
    (pc = "parsed" /\ Len(file) >= HEADER_LEN
       /\ ~BadVersionTag(file) /\ ~BadAlgorithmTag(file) /\ ~BadModeTag(file))
      => /\ (\E k \in 0..(NUM_SLOTS - 1) :
               Region(file, k)[1] = 223 /\ Region(file, k)[2] # 181)
              => (~res.ok /\ res.err = "BadSlotTag")
         /\ res.ok => \A i \in 1..Len(res.header.keyslots) :
                        res.header.keyslots[i].hash_algorithm = 5

\* C18: in what serialize writes, each of the four slot regions is 96 zero bytes
\* or begins with DF B5, whatever version the keyslot's hash_algorithm holds.
C18_OnlyCanonicalSlotTag ==
    pc = "serialized" => \A k \in 0..(NUM_SLOTS - 1) : ValidRegion(Region(file, k))

CurrentVersionCall(call) == call.entry = "hasher" => ghost.version = "V5"

\* C20: the entry points of the current parameter version all use space cost
\* 278528, time cost 1, parallelism 1: ParameterVersion::V5.balloon_params and
\* Version::V1.params yield these parameters, and key::balloon_hash, the V5
\* hasher and hash_password under V1 derive the same key from the same secret
\* and salt.
C20_SameParameters ==
    pc = "kdf" =>
      /\ ParameterVersion_balloon_params("V5")
           = [ok |-> TRUE, s_cost |-> 278528, t_cost |-> 1, p_cost |-> 1]
      /\ Version_params("V1") = ParameterVersion_balloon_params("V5")
      /\ \A i \in 1..Len(res), j \in 1..Len(res) :
           (CurrentVersionCall(res[i]) /\ CurrentVersionCall(res[j])
              /\ res[i].out.ok /\ res[j].out.ok)
             => res[i].out.key = res[j].out.key
      /\ \A i \in 1..Len(res) :
           (CurrentVersionCall(res[i]) /\ ghost.secret # <<>>) => res[i].out.ok

\* The three entry points have each derived a key from the same secret and salt.
C20_Witness ==
    /\ pc = "kdf"
    /\ ghost.version = "V5"
    /\ Len(res) = 3
    /\ {res[i].entry : i \in 1..3} = {"balloon_hash", "hasher", "hash_password"}
    /\ \A i \in 1..3 : res[i].out.ok /\ res[i].out.key = res[1].out.key

\* A call of `fn` has returned.
Returned(fn) == pc = "returned" /\ ghost.kind = "call" /\ ghost.fn = fn

\* C21: key derivation under an unrecognised version fails with the
\* unsupported-version error and returns no key: Blake3Balloon(i).hash fails for
\* every i other than 5, from_u32(v) fails for every v other than 4 and 5 and
\* succeeds for these with the version of that number, and from_u32(to_u32(x))
\* returns x.
C21_UnsupportedVersionFails ==
    /\ (Returned("HashingAlgorithm_hash") /\ ghost.version # 5)
         => (~res.ok /\ res.err = "KdfUnsupportedVersion" /\ res.key = <<>>)
    /\ (Returned("from_u32") /\ ghost.version \notin {4, 5})
         => (~res.ok /\ res.err = "UnsupportedVersion" /\ res.version = "none")
    /\ (Returned("from_u32") /\ ghost.version \in {4, 5})
         => (res.ok /\ ParameterVersion_to_u32(res.version) = ghost.version)
    /\ Returned("from_u32_of_to_u32") => (res.ok /\ res.version = ghost.version)

\* from_u32 has refused a number whose low byte is 5.
C21_Witness ==
    /\ Returned("from_u32")
    /\ ghost.version = 261
    /\ ~res.ok

\* C22: a zero-length secret is rejected: key::balloon_hash,
\* HashingAlgorithm::hash, hash_password and hash_protected_password each fail
\* (under a parameter version it supports, 5) with the empty-secret error on it
\* and return no key.
C22_EmptySecretRejected ==
    (/\ pc = "returned"
     /\ ghost.kind = "call"
     /\ ghost.fn \in {"balloon_hash", "HashingAlgorithm_hash", "hash_password",
                      "hash_protected_password"}
     /\ ghost.fn = "HashingAlgorithm_hash" => ghost.version = 5
     /\ ghost.secret = <<>>)
      => (~res.ok /\ res.err = "EmptyPassword" /\ res.key = <<>>)

\* Exactly 32 characters, each a hexadecimal digit.
IsHexString(str) == Len(str) = 32 /\ \A i \in 1..Len(str) : to_digit(str[i]) # -1

\* C23: salt_from_hex(salt_to_hex(s)) = s for every 16-byte salt s, and
\* salt_from_hex returns an error for every string that is not exactly 32
\* hexadecimal digits.
C23_SaltHexRoundTrip ==
    /\ Returned("salt_round_trip") => (res.ok /\ res.salt = ghost.salt)
    /\ (Returned("salt_from_hex") /\ ~IsHexString(ghost.str)) => ~res.ok

\* C24: pack_params selects ZSTD compression by default, and no compression
\* exactly when the no-compression flag is given.
C24_CompressionByDefault ==
    Returned("pack_params") =>
      /\ res.ok
      /\ res.compression = (IF "no-compression" \in ghost.argv THEN "None" ELSE "Zstd")

(***************************************************************************)
(* Properties of headers in readers and writers                            *)
(***************************************************************************)
\* C25: Header::write returns Ok only after all 416 header bytes have been
\* written to the writer.
C25_WriteIsComplete ==
    (pc = "written" /\ res.ok) => (file = serialize(hdr) /\ Len(file) = 416)

WordSet == {words[k] : k \in 1..Len(words)}

\* C29: for every n >= 1, generate_passphrase(n) completes without failure:
\* every index drawn is at least 0 and below the number of words, and the
\* result is n words of the list joined by n-1 separators, none leading or
\* trailing.
C29_PassphraseCompletes ==
    ghost.kind = "passphrase" =>
      /\ pc # "panicked"
      /\ \A k \in 1..Len(ghost.indices) :
           ghost.indices[k] >= 0 /\ ghost.indices[k] < Len(words)
      /\ (pc = "returned" /\ ghost.total_words >= 1) =>
           /\ Len(file) = 2 * ghost.total_words - 1
           /\ \A k \in 1..Len(file) :
                IF k % 2 = 1 THEN file[k] \in WordSet ELSE file[k] = "-"

(***************************************************************************)
(* Properties of secrets in memory                                         *)
(***************************************************************************)
\* C26: when balloon_hash or decrypt_master_key returns, on every exit path,
\* every copy of the secret, every derived slot key and every buffer that held
\* the master key has been zeroized; only the returned value survives.
C26_SecretsZeroized ==
    (ghost.kind = "memory" /\ pc \in {"hashed", "unlocked"}) =>
      \A k \in 1..Len(ghost.left) :
        ghost.left[k].bytes = Zeros(Len(ghost.left[k].bytes))

(***************************************************************************)
(* Properties of pack::execute                                             *)
(***************************************************************************)
\* C27: pack::execute never leaves the temporary archive behind: on every
\* return after the temporary file was created it has been overwritten and
\* removed, and when encryption ran the value returned is its result.
C27_TempFileRemoved ==
    (ghost.kind = "pack" /\ pc = "returned") =>
      /\ ghost.tmp # "absent" => (ghost.tmp = "removed" /\ ghost.overwritten)
      /\ ghost.encrypt_ran => res = ghost.encrypt_res

\* C30: for each entry that is not a directory, the archive receives exactly
\* the bytes of the source file, complete and in order, whatever counts the
\* reader returns.
C30_CopyIsComplete ==
    ghost.kind = "pack" =>
      \A k \in 1..ghost.done :
        ~ghost.compress_files[k].dir => file[k].bytes = ghost.compress_files[k].bytes

====
